---------------------------- MODULE Spec2Model ----------------------------
(***************************************************************************)
(* A model of the MAPI client of MonetDB-Go (package mapi).                *)
(*                                                                         *)
(* Part I   the block framing transport: putBlock, getBlock, getBytes      *)
(*          (specification SpecFrame).                                     *)
(* Part II  the login handshake and the command exchange: Connect, login,  *)
(*          tryLogin, challengeResponse, cmd, Disconnect                   *)
(*          (specifications SpecLogin and FairSpecLogin), with the fetch   *)
(*          that Rows.fetchNext runs through mapiDo's background task.     *)
(* Part III the query object: StoreResult, Result, HasNextResultSet,       *)
(*          NextResultSet (specification SpecQuery).                       *)
(*                                                                         *)
(* Text is modelled as a sequence of one-character strings and a byte as a *)
(* number in 0..255, so that splitting, trimming, prefix tests and the     *)
(* packing of a block header are computed the way the code computes them.  *)
(***************************************************************************)
EXTENDS Integers, Sequences, FiniteSets, TLC

VARIABLES
    \* ---- Part I: framing ----
    payload,     \* putBlock's argument b
    written,     \* the arguments of the conn.Write calls that succeeded, in order
    putResult,   \* "pending" | "ok" | "err": what putBlock returned
    stream,      \* the bytes the connection holds for the reader, oldest first
    gbpc,        \* getBlock's position: "idle" | "header" | "data" | "done" | "error"
    acc,         \* getBlock's buffer r (the payload accumulated so far)
    last,        \* getBlock's last
    count,       \* getBytes' count
    r,           \* getBytes' r
    read,        \* getBytes' read
    taken,       \* history: the bytes the running getBytes call has taken off the stream
    lastGet,     \* history: the last getBytes call that returned data
    \* ---- Part II: the session (MapiConn) ----
    Hostname, Port, Username, Password, Database, Language,
    State,       \* mapi_STATE_INIT | mapi_STATE_READY
    conn,        \* the connection handle: NilConn, or the dialled peer and whether it is open
    \* ---- Part II: control ----
    pc,          \* "idle" | "connect" | "challenge" | "prompt" | "cmd" | "panic"
    iteration,   \* tryLogin's iteration
    nested,      \* the running Connect/tryLogin was called from a tryLogin (lines 371, 383)
    result,      \* the error the last call returned: "pending", "nil" or an error
    reply,       \* the string the last cmd returned
    lastCall,    \* "none" | "Connect" | "cmd" | "Disconnect"
    \* ---- Part II: history ----
    rounds,        \* challenge/response rounds performed on the current connection
    lastChallenge, \* the challenge of the round in progress
    lastSent,      \* the login response written in the round in progress
    lastPrompt,    \* the last prompt received in the running or last Connect
    ioFailed,      \* a read or write on the connection failed in the running or last call
    redirects,     \* merovingian redirects received in a row on the current connection
    redirectTarget, \* the last monetdb redirect prompt this Connect has followed
    \* ---- Part II: the command exchange ----
    errText,     \* the text the error returned by the last cmd carries
    lastResp,    \* the response the running or last cmd read (<<"none">>: none yet)
    prevResult,  \* history: what the cmd before the running or last one returned
    outstanding, \* history: messages sent on the transport and not yet answered
    broken,      \* history: a read or write of a command failed on this connection
    task,        \* who runs the cmd in progress: "caller" | "background"
    rowsPc,      \* the caller's position in mapiDo: "idle" | "select"
    ctxDone,     \* the context given to the running mapiDo is done
    chan,        \* mapiDo's channel c: <<>> or the one result delivered
    \* ---- Part III: the query object ----
    resultSets,        \* query.resultSets
    currentResultSet,  \* query.currentResultSet
    qpc,               \* StoreResult's position: "idle" | "lines" | "panic"
    lines,             \* the lines StoreResult has still to process
    columns,           \* StoreResult's column arrays (columnNames, columnTypes, ...)
    addedResultSets,   \* StoreResult's addedResultSets
    qerr,              \* what the running or last StoreResult returned
    nextErr,           \* what the last NextResultSet returned: from which cursor, to
                       \* which, with how many ResultSets; and what the v2 query's
                       \* HasNextResultSet and NextResultSet returned
    v2ResultSet,       \* the v2 query's resultSets[0]
    v2err,             \* what the v2 StoreResult returned
    stored,            \* history: the response given to the running or last StoreResult
    passes,            \* history: StoreResult calls made on this query
    completed,         \* history: a pass returned nil at a prompt having added a ResultSet
    before,            \* history: resultSets and cursor before the line processed last
    lastLine,          \* history: the line processed last
    lineType,          \* StoreResult's lineType: the class of the line processed last
    advances,          \* history: NextResultSet calls that returned nil since a pass
    \* ---- Part IV: Rows and the statements of a query ----
    active,      \* Rows.active
    rowNum,      \* Rows.rowNum
    offset,      \* Rows.offset
    rows,        \* Rows.rows, the buffered window
    rpc,         \* "ready", or "panic" once a call has panicked
    sent,        \* history: the commands given to the session, in order
    returned,    \* history: the rows Next has copied into dest, in order
    lastNext,    \* history: the last Next call, what it found and what it returned
    honest,      \* history: every fetch so far was answered with the rows asked for
    prepared,    \* history: the execution id of the last prepare response stored
    execCall     \* history: the last PrepareQuery, ExecutePreparedQuery or
                 \* ExecuteNamedQuery call and what it returned
                       \* put the cursor at the first ResultSet (-1: no pass did)

frameVars == <<payload, written, putResult, stream, gbpc, acc, last, count, r,
               read, taken, lastGet>>

sessionVars == <<Hostname, Port, Username, Password, Database, Language, State, conn>>

controlVars == <<pc, iteration, nested, result, reply, lastCall>>

historyVars == <<rounds, lastChallenge, lastSent, lastPrompt, ioFailed,
                 redirects, redirectTarget>>

exchangeVars == <<errText, lastResp, prevResult, outstanding, broken, task,
                  rowsPc, ctxDone, chan>>

loginVars == <<sessionVars, controlVars, historyVars, exchangeVars>>

queryVars == <<resultSets, currentResultSet, qpc, lines, columns,
               addedResultSets, qerr, nextErr, v2ResultSet, v2err, stored, passes,
               completed, before, lastLine, lineType, advances>>

queryPassVars == <<qpc, lines, columns, addedResultSets, qerr, nextErr,
                   v2ResultSet, v2err, stored, passes, completed, before,
                   lastLine, lineType, advances>>

rowsVars == <<active, rowNum, offset, rows, returned, lastNext, honest>>

driverVars == <<rowsVars, rpc, sent, prepared, execCall>>

vars == <<frameVars, loginVars, queryVars, driverVars>>

(***************************************************************************)
(* Bounds.                                                                 *)
(***************************************************************************)
\* Stands for mapi_MAX_PACKAGE_LENGTH (8190 in the source), scaled down so
\* that payloads of 0, 1, MAX, MAX+1 and 2*MAX+1 bytes can be enumerated.
MaxPackageLength == 3

Min(a, b) == IF a < b THEN a ELSE b

\* The values a payload byte takes in the model. 1 is an odd byte: read as the
\* low byte of a header it sets the last flag.
ByteValues == {0, 1}

MaxPayloadLength == 2 * MaxPackageLength + 1

Payloads == UNION {[1..n -> ByteValues] : n \in 0..MaxPayloadLength}

(***************************************************************************)
(* Text: strings.HasPrefix, strings.TrimSpace, strings.Split,              *)
(* strings.Contains and strconv.ParseInt on sequences of characters.       *)
(***************************************************************************)
HasPrefix(s, prefix) ==
    Len(s) >= Len(prefix) /\ SubSeq(s, 1, Len(prefix)) = prefix

IsSpace(c) == c \in {" ", "\t", "\n", "\r"}

RECURSIVE TrimLeft(_)
TrimLeft(s) ==
    IF s # <<>> /\ IsSpace(Head(s)) THEN TrimLeft(Tail(s)) ELSE s

RECURSIVE TrimRight(_)
TrimRight(s) ==
    IF s # <<>> /\ IsSpace(s[Len(s)])
    THEN TrimRight(SubSeq(s, 1, Len(s) - 1)) ELSE s

TrimSpace(s) == TrimRight(TrimLeft(s))

\* strings.Split(s, sep) for a one-character sep: the fields between the
\* separators, one more than there are separators.
RECURSIVE SplitFrom(_, _, _)
SplitFrom(s, sep, field) ==
    LET hits == {i \in 1..Len(s) : s[i] = sep}
    IN  IF hits = {} THEN <<field \o s>>
        ELSE LET i == CHOOSE h \in hits : \A k \in hits : h <= k
             IN  <<field \o SubSeq(s, 1, i - 1)>>
                 \o SplitFrom(SubSeq(s, i + 1, Len(s)), sep, <<>>)

Split(s, sep) == SplitFrom(s, sep, <<>>)

Contains(s, sub) ==
    \E i \in 0..(Len(s) - Len(sub)) : SubSeq(s, i + 1, i + Len(sub)) = sub

RECURSIVE Join(_, _)
Join(fields, sep) ==
    IF Len(fields) = 0 THEN <<>>
    ELSE IF Len(fields) = 1 THEN fields[1]
    ELSE fields[1] \o <<sep>> \o Join(Tail(fields), sep)

Digits == <<"0", "1", "2", "3", "4", "5", "6", "7", "8", "9">>

DigitValue(c) == (CHOOSE i \in 1..10 : Digits[i] = c) - 1

IsDigit(c) == \E i \in 1..10 : Digits[i] = c

RECURSIVE DecimalValue(_)
DecimalValue(s) ==
    IF s = <<>> THEN 0
    ELSE 10 * DecimalValue(SubSeq(s, 1, Len(s) - 1)) + DigitValue(s[Len(s)])

\* port, _ := strconv.ParseInt(s, 10, 32) with the error dropped: 0 for text
\* that is no number, the largest int32 for a number out of range. (Texts of
\* the model carry no sign.)
ParseInt(s) ==
    IF s = <<>> \/ \E i \in 1..Len(s) : ~IsDigit(s[i]) THEN 0
    ELSE Min(DecimalValue(s), 2147483647)

\* strings.Split(s, sep) for a separator of any length (not empty).
RECURSIVE SplitOnFrom(_, _, _)
SplitOnFrom(s, sep, field) ==
    IF s = <<>> THEN <<field>>
    ELSE IF HasPrefix(s, sep)
    THEN <<field>> \o SplitOnFrom(SubSeq(s, Len(sep) + 1, Len(s)), sep, <<>>)
    ELSE SplitOnFrom(Tail(s), sep, Append(field, Head(s)))

SplitOn(s, sep) == SplitOnFrom(s, sep, <<>>)

\* strconv.Atoi: an optional sign and decimal digits; anything else is an
\* error, with which Atoi returns 0. (Numbers of the model are small.)
AtoiOk(s) ==
    LET digits == IF s # <<>> /\ Head(s) \in {"-", "+"} THEN Tail(s) ELSE s
    IN  digits # <<>> /\ \A i \in 1..Len(digits) : IsDigit(digits[i])

Atoi(s) ==
    IF ~AtoiOk(s) THEN 0
    ELSE IF Head(s) = "-" THEN 0 - DecimalValue(Tail(s))
    ELSE IF Head(s) = "+" THEN DecimalValue(Tail(s))
    ELSE DecimalValue(s)

(***************************************************************************)
(* The protocol's constants (package mapi).                                *)
(***************************************************************************)
mapi_MSG_PROMPT   == <<>>
mapi_MSG_INFO     == <<"#">>
mapi_MSG_ERROR    == <<"!">>
mapi_MSG_Q        == <<"&">>
mapi_MSG_QTABLE   == <<"&", "1">>
mapi_MSG_QUPDATE  == <<"&", "2">>
mapi_MSG_QSCHEMA  == <<"&", "3">>
mapi_MSG_QTRANS   == <<"&", "4">>
mapi_MSG_QPREPARE == <<"&", "5">>
mapi_MSG_QBLOCK   == <<"&", "6">>
mapi_MSG_HEADER   == <<"%">>
mapi_MSG_TUPLE    == <<"[">>
mapi_MSG_REDIRECT == <<"^">>
mapi_MSG_OK       == <<"=", "O", "K">>
\* The bytes 1, 2, 10
mapi_MSG_MORE     == <<"SOH", "STX", "\n">>

mapi_STATE_READY == 1

mapi_STATE_INIT == 0

\* c.conn = nil
NilConn == [nil |-> TRUE, open |-> FALSE, host |-> <<>>, port |-> 0]

\* The handle NewMapi returns for a DSN naming user, password, host, port and
\* database, with no call made on it yet.
NewMapi(user, password, host, port, database) ==
    /\ Hostname = host
    /\ Port = port
    /\ Username = user
    /\ Password = password
    /\ Database = database
    /\ Language = <<"s", "q", "l">>
    /\ State = mapi_STATE_INIT
    /\ conn = NilConn
    /\ pc = "idle"
    /\ iteration = 0
    /\ nested = FALSE
    /\ result = "nil"
    /\ reply = <<>>
    /\ lastCall = "none"
    /\ rounds = 0
    /\ lastChallenge = <<>>
    /\ lastSent = <<>>
    /\ lastPrompt = <<"none">>
    /\ ioFailed = FALSE
    /\ redirects = 0
    /\ redirectTarget = <<"none">>
    /\ errText = <<>>
    /\ lastResp = <<"none">>
    /\ prevResult = "none"
    /\ outstanding = 0
    /\ broken = FALSE
    /\ task = "caller"
    /\ rowsPc = "idle"
    /\ ctxDone = FALSE
    /\ chan = <<>>

SessionIdle == NewMapi(<<"u">>, <<"p">>, <<"a">>, 50, <<"x">>)

(***************************************************************************)
(* The query object after NewQuery. A ResultSet is a record of its         *)
(* Metadata fields, its Schema and its Rows; a nil and an empty slice are  *)
(* both the empty sequence.                                                *)
(***************************************************************************)
\* ResultSet{} with Metadata.ExecId = -1 (newResultSet, and v2's NewQuery).
EmptyResultSet ==
    [ExecId |-> 0 - 1, LastRowId |-> 0, RowCount |-> 0, QueryId |-> 0,
     Offset |-> 0, ColumnCount |-> 0, Schema |-> <<>>, Rows |-> <<>>]

\* StoreResult's column arrays as declared: nil slices.
NoColumns ==
    [columnNames |-> <<>>, columnTypes |-> <<>>, displaySizes |-> <<>>,
     internalSizes |-> <<>>, precisions |-> <<>>, scales |-> <<>>,
     nullOks |-> <<>>]

NoError == [kind |-> "nil", text |-> <<>>]

\* No StoreResult pass made yet; the v2 query holds one ResultSet from the
\* start.
QueryPassIdle ==
    /\ qpc = "idle"
    /\ lines = <<>>
    /\ columns = NoColumns
    /\ addedResultSets = FALSE
    /\ qerr = NoError
    /\ nextErr = [kind |-> "none", from |-> 0 - 1, to |-> 0 - 1, n |-> 0,
                  v2has |-> FALSE, v2kind |-> "none"]
    /\ v2ResultSet = EmptyResultSet
    /\ v2err = [kind |-> "nil", text |-> <<>>, line |-> <<"none">>]
    /\ stored = <<"none">>
    /\ passes = 0
    /\ completed = FALSE
    /\ before = [resultSets |-> <<>>, currentResultSet |-> 0 - 1]
    /\ lastLine = <<"none">>
    /\ lineType = "none"
    /\ advances = 0 - 1

\* NewQuery: no ResultSet and the cursor at -1.
QueryIdle ==
    /\ resultSets = <<>>
    /\ currentResultSet = 0 - 1
    /\ QueryPassIdle

\* No Rows and no statement call yet.
DriverIdle ==
    /\ active = FALSE
    /\ rowNum = 0
    /\ offset = 0
    /\ rows = <<>>
    /\ rpc = "ready"
    /\ sent = <<>>
    /\ returned = <<>>
    /\ lastNext = [kind |-> "none"]
    /\ honest = TRUE
    /\ prepared = 0 - 1
    /\ execCall = [op |-> "none"]

(***************************************************************************)
(* Part I.  Framing transport                                              *)
(***************************************************************************)

\* binary.Write(flag, binary.LittleEndian, packed) for a uint16
LittleEndian16(packed) == <<packed % 256, packed \div 256>>

\* binary.Read(buf, binary.LittleEndian, &unpacked) for a uint16
Unpack16(flag) == flag[1] + 256 * flag[2]

\* putBlock with the last flag also set on a chunk of exactly MAX bytes.
PutBlockChunk_FullIsLast(b, pos) ==
    LET end    == Min(pos + MaxPackageLength, Len(b))
        data   == SubSeq(b, pos + 1, end)
        length == Len(data)
        lst    == IF length <= MaxPackageLength THEN 1 ELSE 0
        packed == ((length * 2) + lst) % 65536
    IN  [flag |-> LittleEndian16(packed), data |-> data, last |-> lst]

\* One iteration of putBlock's loop at position pos: the header and the data
\* it hands to conn.Write, and the value of last.
PutBlockChunk(b, pos) ==
    LET end    == Min(pos + MaxPackageLength, Len(b))
        data   == SubSeq(b, pos + 1, end)
        length == Len(data)
        lst    == IF length < MaxPackageLength THEN 1 ELSE 0
        packed == ((length * 2) + lst) % 65536
    IN  [flag |-> LittleEndian16(packed), data |-> data, last |-> lst]

\* The chunks putBlock(b) produces from position pos on, when no write fails.
RECURSIVE PutBlockChunks(_, _)
PutBlockChunks(b, pos) ==
    LET c == PutBlockChunk(b, pos)
    IN  IF c.last = 1 THEN <<c>>
        ELSE <<c>> \o PutBlockChunks(b, pos + Len(c.data))

\* The conn.Write calls of putBlock(b): per chunk the header, then the data.
RECURSIVE WritesOf(_)
WritesOf(chunks) ==
    IF chunks = <<>> THEN <<>>
    ELSE <<Head(chunks).flag, Head(chunks).data>> \o WritesOf(Tail(chunks))

PutBlockWrites(b) == WritesOf(PutBlockChunks(b, 0))

RECURSIVE Flatten(_)
Flatten(ss) == IF ss = <<>> THEN <<>> ELSE Head(ss) \o Flatten(Tail(ss))

Zeros(n) == [i \in 1..n |-> 0]

\* copy(r[read:], b[:n]): min(n, len(r) - read) bytes of b go to r at read.
Copy(dst, at, src) ==
    [i \in 1..Len(dst) |->
        IF i > at /\ i <= at + Len(src) THEN src[i - at] ELSE dst[i]]

\* The transport before any block is put or read.
FrameIdle(p) ==
    /\ payload = p
    /\ written = <<>>
    /\ putResult = "pending"
    /\ stream = <<>>
    /\ gbpc = "idle"
    /\ acc = <<>>
    /\ last = 0
    /\ count = 0
    /\ r = <<>>
    /\ read = 0
    /\ taken = <<>>
    /\ lastGet = [count |-> 0, got |-> <<>>, taken |-> <<>>]

FrameInit ==
    /\ \E p \in Payloads : FrameIdle(p)
    /\ SessionIdle
    /\ QueryIdle
    /\ DriverIdle

\* putBlock(payload). The first k conn.Write calls succeed; a later one, when
\* there is one, fails and putBlock returns its error.
PutBlock ==
    /\ putResult = "pending"
    /\ \E k \in 0..Len(PutBlockWrites(payload)) :
         /\ written' = SubSeq(PutBlockWrites(payload), 1, k)
         /\ putResult' = IF k = Len(PutBlockWrites(payload)) THEN "ok" ELSE "err"
         /\ stream' = stream \o Flatten(SubSeq(PutBlockWrites(payload), 1, k))
    /\ UNCHANGED <<payload, gbpc, acc, last, count, r, read, taken, lastGet>>
    /\ UNCHANGED loginVars
    /\ UNCHANGED queryVars
    /\ UNCHANGED driverVars

\* getBlock is called: r is empty, last is 0, and getBytes(2) starts.
GetBlockCall ==
    /\ gbpc = "idle"
    /\ gbpc' = "header"
    /\ acc' = <<>>
    /\ last' = 0
    /\ count' = 2
    /\ r' = Zeros(2)
    /\ read' = 0
    /\ taken' = <<>>
    /\ UNCHANGED <<payload, written, putResult, stream, lastGet>>
    /\ UNCHANGED loginVars
    /\ UNCHANGED queryVars
    /\ UNCHANGED driverVars

\* The state of getBlock after a getBytes call has returned bytes `got`:
\* a header is unpacked and the data asked for (a chunk
\* of length 0 needs no Read), data is appended to r and the loop ends or
\* goes on to the next header.
AfterGetBytes(phase, got, accNow, lastNow) ==
    LET unpacked == Unpack16(got)
        length   == unpacked \div 2
        lst      == IF phase = "header" THEN unpacked % 2 ELSE lastNow
        accNew   == IF phase = "data" THEN accNow \o got ELSE accNow
        toData   == phase = "header" /\ length > 0
        finished == ~toData /\ lst = 1
    IN  [pc    |-> IF toData THEN "data" ELSE IF finished THEN "done" ELSE "header",
         acc   |-> accNew,
         last  |-> lst,
         count |-> IF toData THEN length ELSE IF finished THEN 0 ELSE 2]

\* One iteration of getBytes' loop: conn.Read(b) with len(b) = count delivers
\* n bytes, between 1 and the size of b, of what the connection holds; they
\* are copied to r at read, and read grows by n. When read reaches count,
\* getBytes returns r and getBlock goes on to its next Read.
ConnReadLen(n) ==
    /\ gbpc \in {"header", "data"}
    /\ n >= 1 /\ n <= Len(stream)
    /\ LET data    == SubSeq(stream, 1, n)
           rest    == SubSeq(stream, n + 1, Len(stream))
           rNew    == Copy(r, read, data)
           readNew == read + n
       IN  /\ stream' = rest
           /\ IF readNew < count
              THEN /\ r' = rNew
                   /\ read' = readNew
                   /\ taken' = taken \o data
                   /\ UNCHANGED <<gbpc, acc, last, count, lastGet>>
              ELSE LET nxt == AfterGetBytes(gbpc, rNew, acc, last)
                   IN  /\ gbpc' = nxt.pc
                       /\ acc' = nxt.acc
                       /\ last' = nxt.last
                       /\ count' = nxt.count
                       /\ r' = Zeros(nxt.count)
                       /\ read' = 0
                       /\ taken' = <<>>
                       /\ lastGet' = [count |-> count, got |-> rNew,
                                      taken |-> taken \o data]
    /\ UNCHANGED <<payload, written, putResult>>
    /\ UNCHANGED loginVars
    /\ UNCHANGED queryVars
    /\ UNCHANGED driverVars

\* The sizes conn.Read may return for the buffer b that getBytes passes it:
\* b is allocated once with len(b) = count and passed whole to every Read.
ReadSizes == 1..count

ConnRead == \E n \in ReadSizes : ConnReadLen(n)

\* conn.Read returns an error: getBytes and getBlock return (nil, err).
ConnReadError ==
    /\ gbpc \in {"header", "data"}
    /\ gbpc' = "error"
    /\ acc' = <<>>
    /\ UNCHANGED <<payload, written, putResult, stream, last, count, r, read,
                   taken, lastGet>>
    /\ UNCHANGED loginVars
    /\ UNCHANGED queryVars
    /\ UNCHANGED driverVars

FrameNext == PutBlock \/ GetBlockCall \/ ConnRead \/ ConnReadError

SpecFrame == FrameInit /\ [][FrameNext]_vars

(***************************************************************************)
(* Part I.  Properties of the framing transport                            *)
(***************************************************************************)

\* C1: the frames putBlock(P) wrote, read back by getBlock, yield exactly P:
\* whenever putBlock has returned without error and getBlock has returned a
\* message, that message is P.
C1_RoundTrip ==
    (putResult = "ok" /\ gbpc = "done") => acc = payload

\* The header of a frame carrying n bytes with the given last flag.
FrameHeader(n, lastFlag) ==
    LET v == n * 2 + lastFlag IN <<v % 256, v \div 256>>

\* C2: putBlock(P) with len(P) = L writes floor(L/MAX)+1 frames, each a 2-byte
\* little-endian header (chunk_length << 1) | last_flag followed by
\* chunk_length payload bytes; every frame but the final one carries exactly
\* MAX bytes with last_flag 0, the final one carries L mod MAX bytes with
\* last_flag 1.
C2_Frames ==
    putResult = "ok" =>
        LET L == Len(payload)
            n == (L \div MaxPackageLength) + 1
        IN  /\ Len(written) = 2 * n
            /\ \A i \in 1..n :
                 LET hdr  == written[2 * i - 1]
                     data == written[2 * i]
                     from == (i - 1) * MaxPackageLength
                 IN  /\ Len(data) = IF i < n THEN MaxPackageLength
                                     ELSE L % MaxPackageLength
                     /\ hdr = FrameHeader(Len(data), IF i = n THEN 1 ELSE 0)
                     /\ data = SubSeq(payload, from + 1, from + Len(data))
            /\ Cardinality({i \in 1..n : written[2 * i - 1][1] % 2 = 1}) = 1

\* A payload of exactly MAX bytes was written: a full frame not flagged last,
\* then an empty frame flagged last.
C2_ExactMultiple ==
    /\ putResult = "ok"
    /\ Len(payload) = MaxPackageLength
    /\ Len(written) = 4
    /\ written[4] = <<>>

\* C3: however the connection splits the stream into partial reads,
\* getBytes(count) consumes exactly count bytes of the stream and returns them
\* in order; hence getBlock returns exactly the payload and leaves the stream
\* at the first byte after the frame flagged last.
C3_GetBytesExact ==
    /\ Len(lastGet.taken) = lastGet.count
    /\ lastGet.got = lastGet.taken
    /\ (putResult = "ok" /\ gbpc = "done") =>
          /\ acc = payload
          /\ stream = <<>>

(***************************************************************************)
(* Part II.  Login handshake and command exchange                          *)
(***************************************************************************)

SHA512 == <<"S", "H", "A", "5", "1", "2">>
SHA256 == <<"S", "H", "A", "2", "5", "6">>
SHA1   == <<"S", "H", "A", "1">>
MD5    == <<"M", "D", "5">>
RIPEMD == <<"R", "I", "P", "E", "M", "D", "1", "6", "0">>

\* fmt.Sprintf("%x", h.Sum(nil)) for the hash `algorithm` over `data`: the
\* digest is kept symbolic, one text per algorithm and input.
HexDigest(algorithm, data) == <<"<">> \o algorithm \o <<"|">> \o data \o <<">">>

Failure(e) == [kind |-> "err", err |-> e, r |-> <<>>]

\* challengeResponse with MD5 taken first when both hashes are offered.
challengeResponse_MD5First(challenge, username, password, language, database) ==
    LET t == Split(challenge, ":")
    IN  IF Len(t) < 6 THEN [kind |-> "panic", err |-> "index", r |-> <<>>]
        ELSE
        LET salt     == t[1]
            protocol == t[3]
            hashes   == t[4]
            algo     == t[6]
            p        == HexDigest(SHA512, password)
            shashes  == <<",">> \o hashes \o <<",">>
            pwhash   ==
                IF Contains(shashes, <<",">> \o MD5 \o <<",">>)
                THEN <<"{">> \o MD5 \o <<"}">> \o HexDigest(MD5, p \o salt)
                ELSE <<"{">> \o SHA1 \o <<"}">> \o HexDigest(SHA1, p \o salt)
        IN  IF protocol # <<"9">> THEN Failure("protocol")
            ELSE IF algo # SHA512 THEN Failure("algorithm")
            ELSE IF ~Contains(shashes, <<",">> \o SHA1 \o <<",">>)
                    /\ ~Contains(shashes, <<",">> \o MD5 \o <<",">>)
                 THEN Failure("hash")
            ELSE [kind |-> "ok", err |-> "nil",
                  r |-> <<"B", "I", "G", ":">> \o username \o <<":">> \o pwhash
                        \o <<":">> \o language \o <<":">> \o database \o <<":">>]

\* challengeResponse(challenge) on a session with the given fields. Fewer
\* than six colon-separated fields make t[5] (or an earlier index) panic.
challengeResponse(challenge, username, password, language, database) ==
    LET t == Split(challenge, ":")
    IN  IF Len(t) < 6 THEN [kind |-> "panic", err |-> "index", r |-> <<>>]
        ELSE
        LET salt     == t[1]
            protocol == t[3]
            hashes   == t[4]
            algo     == t[6]
            p        == HexDigest(SHA512, password)
            shashes  == <<",">> \o hashes \o <<",">>
            pwhash   ==
                IF Contains(shashes, <<",">> \o SHA1 \o <<",">>)
                THEN <<"{">> \o SHA1 \o <<"}">> \o HexDigest(SHA1, p \o salt)
                ELSE <<"{">> \o MD5 \o <<"}">> \o HexDigest(MD5, p \o salt)
        IN  IF protocol # <<"9">> THEN Failure("protocol")
            ELSE IF algo # SHA512 THEN Failure("algorithm")
            ELSE IF ~Contains(shashes, <<",">> \o SHA1 \o <<",">>)
                    /\ ~Contains(shashes, <<",">> \o MD5 \o <<",">>)
                 THEN Failure("hash")
            ELSE [kind |-> "ok", err |-> "nil",
                  r |-> <<"B", "I", "G", ":">> \o username \o <<":">> \o pwhash
                        \o <<":">> \o language \o <<":">> \o database \o <<":">>]

(***************************************************************************)
(* What the server may send.                                               *)
(***************************************************************************)
HashLists ==
    { SHA1 \o <<",">> \o MD5,
      MD5 \o <<",">> \o SHA1,
      RIPEMD \o <<",">> \o MD5,
      SHA1,
      RIPEMD,
      <<"X">> \o SHA1 \o <<",">> \o MD5 \o <<"X">> }

Challenge(salt, protocol, hashes, algo) ==
    Join(<<salt, <<"m">>, protocol, hashes, <<"L", "I", "T">>, algo, <<>>>>, ":")

Challenges ==
    { Challenge(<<"s">>, protocol, hashes, algo) :
        protocol \in {<<"9">>, <<"8">>}, hashes \in HashLists,
        algo \in {SHA512, SHA256} }
    \cup { <<"s", ":", "m", ":", "9">> }

MAPI == <<"^", "m", "a", "p", "i", ":">>

\* ^mapi:merovingian://proxy?database=x
MerovingianRedirect ==
    MAPI \o <<"m", "e", "r", "o", "v", "i", "n", "g", "i", "a", "n", ":",
              "/", "/", "p", "?", "d", "=", "x">>

\* ^mapi:monetdb://<host>:<port>/<database>
MonetdbRedirect(host, port, database) ==
    MAPI \o <<"m", "o", "n", "e", "t", "d", "b", ":", "/", "/">> \o host
         \o <<":">> \o port \o <<"/">> \o database

\* The direct-server targets the server's redirects name.
RedirectTargets == { [host |-> <<"b">>, port |-> <<"5", "1">>, database |-> <<"y">>] }

Prompts ==
    { MonetdbRedirect(g.host, g.port, g.database) : g \in RedirectTargets }
    \cup
    { <<>>,
      mapi_MSG_OK,
      mapi_MSG_OK \o <<"\n">>,
      mapi_MSG_OK \o <<"x">>,
      <<"#", "i">>,
      <<"!", "e">>,
      <<"x">>,
      MerovingianRedirect,
      MonetdbRedirect(<<"b">>, <<"5", "z">>, <<"y">>),
      MAPI \o <<"o", "t", "h", "e", "r", ":", "/", "/", "b">>,
      MAPI \o <<"m", "o", "n", "e", "t", "d", "b", ":", "/", "/", "b">>,
      <<"^", "x">> }

Responses ==
    { <<>>,
      mapi_MSG_OK,
      mapi_MSG_OK \o <<" ", "5", "\n">>,
      mapi_MSG_MORE,
      <<"&", "1", " ", "0">>,
      <<"%", " ", "c">>,
      <<"[", " ", "1", " ", "]">>,
      <<"!", "e">>,
      <<"x">> }

(***************************************************************************)
(* Returning. A tryLogin that was called from another tryLogin (for a      *)
(* merovingian redirect, line 371, or through Connect for a monetdb        *)
(* redirect, line 383) returns to a caller that drops what it returned,    *)
(* sets State to mapi_STATE_READY (line 392) and returns nil (line 394);   *)
(* the caller of that one does the same, down to the outermost tryLogin,   *)
(* whose nil Connect returns (lines 318-323).                              *)
(***************************************************************************)
Return(err, state) ==
    /\ pc' = "idle"
    /\ nested' = FALSE
    /\ iteration' = 0
    /\ result' = IF nested THEN "nil" ELSE err
    /\ State' = IF nested THEN mapi_STATE_READY ELSE state

\* The caller calls Connect on a handle that is not connected.
CallConnect ==
    /\ pc = "idle"
    /\ lastCall \in {"none", "Disconnect"}
    /\ pc' = "connect"
    /\ lastCall' = "Connect"
    /\ result' = "pending"
    /\ reply' = <<>>
    /\ nested' = FALSE
    /\ iteration' = 0
    /\ rounds' = 0
    /\ lastChallenge' = <<>>
    /\ lastSent' = <<>>
    /\ lastPrompt' = <<"none">>
    /\ ioFailed' = FALSE
    /\ redirects' = 0
    /\ redirectTarget' = <<"none">>
    /\ UNCHANGED sessionVars
    /\ UNCHANGED exchangeVars
    /\ UNCHANGED frameVars
    /\ UNCHANGED queryVars
    /\ UNCHANGED driverVars

\* Connect, lines 298-318: the old connection is closed and dropped, the
\* address is resolved and dialled; login() then calls tryLogin(0).
ConnectDial ==
    /\ pc = "connect"
    /\ \E dialled \in BOOLEAN :
         IF dialled
         THEN /\ conn' = [nil |-> FALSE, open |-> TRUE, host |-> Hostname,
                          port |-> Port]
              /\ pc' = "challenge"
              /\ iteration' = 0
              /\ rounds' = 0
              /\ redirects' = 0
              /\ UNCHANGED <<State, nested, result>>
         ELSE /\ conn' = NilConn
              /\ Return("dial", State)
              /\ UNCHANGED <<rounds, redirects>>
    /\ UNCHANGED <<Hostname, Port, Username, Password, Database, Language>>
    /\ UNCHANGED <<reply, lastCall>>
    /\ UNCHANGED <<lastChallenge, lastSent, lastPrompt, ioFailed, redirectTarget>>
    /\ UNCHANGED exchangeVars
    /\ UNCHANGED frameVars
    /\ UNCHANGED queryVars
    /\ UNCHANGED driverVars

\* tryLogin, lines 333-343: the challenge is read, the response computed and
\* written; the error of putBlock is dropped.
TryLoginChallenge ==
    /\ pc = "challenge"
    /\ \/ \* getBlock fails
          /\ ioFailed' = TRUE
          /\ Return("io", State)
          /\ UNCHANGED <<rounds, lastChallenge, lastSent>>
       \/ \E challenge \in Challenges :
            LET cr == challengeResponse(challenge, Username, Password,
                                        Language, Database)
            IN  /\ lastChallenge' = challenge
                /\ IF cr.kind = "panic"
                   THEN /\ pc' = "panic"
                        /\ lastSent' = <<>>
                        /\ UNCHANGED <<State, nested, iteration, result,
                                       rounds, ioFailed>>
                   ELSE IF cr.kind = "err"
                   THEN /\ Return(cr.err, State)
                        /\ lastSent' = <<>>
                        /\ UNCHANGED <<rounds, ioFailed>>
                   ELSE \E put \in BOOLEAN :
                        /\ lastSent' = IF put THEN cr.r ELSE <<>>
                        /\ ioFailed' = (ioFailed \/ ~put)
                        /\ rounds' = rounds + 1
                        /\ pc' = "prompt"
                        /\ UNCHANGED <<State, nested, iteration, result>>
    /\ UNCHANGED <<Hostname, Port, Username, Password, Database, Language, conn>>
    /\ UNCHANGED <<reply, lastCall>>
    /\ UNCHANGED <<lastPrompt, redirects, redirectTarget>>
    /\ UNCHANGED exchangeVars
    /\ UNCHANGED frameVars
    /\ UNCHANGED queryVars
    /\ UNCHANGED driverVars

\* The number in tryLogin's test (line 370) and in its message (line 373).
RedirectLimit == 10

\* tryLogin, line 370: whether a merovingian redirect restarts the handshake.
MayRestart(i) == i <= RedirectLimit

\* tryLogin taking r[2] whole as the host name.
RedirectHost_Whole(rr) == rr[3]

\* tryLogin, line 377: r[2][2:].
RedirectHost(rr) == SubSeq(rr[3], 3, Len(rr[3]))

\* tryLogin, lines 379-380: the port of the redirect, int(port).
RedirectPort(tt) == ParseInt(tt[1])

\* tryLogin, line 381: t[1].
RedirectDatabase(tt) == tt[2]

\* tryLogin, lines 350-394, for the prompt bprompt. (Go counts the fields of
\* t and r from 0, the model from 1.)
Prompted(bprompt) ==
    LET prompt == TrimSpace(bprompt)
        t      == Split(prompt, " ")
        rr     == Split(Tail(t[1]), ":")
        tt     == Split(rr[4], "/")
        same   == /\ UNCHANGED <<Hostname, Port, Database, conn>>
                  /\ UNCHANGED <<rounds, redirects, redirectTarget>>
        panic  == /\ pc' = "panic"
                  /\ UNCHANGED <<State, nested, iteration, result>>
                  /\ UNCHANGED <<conn, rounds, redirects, redirectTarget>>
    IN  /\ lastPrompt' = bprompt
        /\ IF \/ Len(prompt) = 0
              \/ prompt = mapi_MSG_OK
              \/ HasPrefix(prompt, mapi_MSG_INFO)
           THEN Return("nil", mapi_STATE_READY) /\ same
           ELSE IF HasPrefix(prompt, mapi_MSG_ERROR)
           THEN Return("database", State) /\ same
           ELSE IF ~HasPrefix(prompt, mapi_MSG_REDIRECT)
           THEN Return("unknown state", State) /\ same
           ELSE IF Len(rr) < 2
           THEN panic /\ UNCHANGED <<Hostname, Port, Database>>
           ELSE IF rr[2] = <<"m", "e", "r", "o", "v", "i", "n", "g", "i", "a", "n">>
           THEN /\ redirects' = redirects + 1
                /\ UNCHANGED <<Hostname, Port, Database, conn>>
                /\ UNCHANGED <<rounds, redirectTarget>>
                /\ IF MayRestart(iteration)
                   THEN /\ pc' = "challenge"
                        /\ nested' = TRUE
                        /\ iteration' = iteration + 1
                        /\ UNCHANGED <<State, result>>
                   ELSE Return("maximal number of redirects", State)
           ELSE IF rr[2] = <<"m", "o", "n", "e", "t", "d", "b">>
           THEN IF Len(rr) < 3 \/ Len(rr[3]) < 2
                THEN panic /\ UNCHANGED <<Hostname, Port, Database>>
                ELSE IF Len(rr) < 4
                THEN /\ panic
                     /\ Hostname' = RedirectHost(rr)
                     /\ UNCHANGED <<Port, Database>>
                ELSE IF Len(tt) < 2
                THEN /\ panic
                     /\ Hostname' = RedirectHost(rr)
                     /\ Port' = RedirectPort(tt)
                     /\ UNCHANGED Database
                ELSE /\ Hostname' = RedirectHost(rr)
                     /\ Port' = RedirectPort(tt)
                     /\ Database' = RedirectDatabase(tt)
                     /\ conn' = [conn EXCEPT !.open = FALSE]
                     /\ pc' = "connect"
                     /\ nested' = TRUE
                     /\ redirectTarget' = bprompt
                     /\ UNCHANGED <<State, iteration, result>>
                     /\ UNCHANGED <<rounds, redirects>>
           ELSE Return("unknown redirect", State) /\ same

\* tryLogin, lines 345-394: the prompt is read and classified. A failed read
\* makes tryLogin return nil (line 347).
TryLoginPrompt ==
    /\ pc = "prompt"
    /\ \/ \* getBlock fails
          /\ ioFailed' = TRUE
          /\ UNCHANGED lastPrompt
          /\ Return("nil", State)
          /\ UNCHANGED <<Hostname, Port, Database, conn>>
          /\ UNCHANGED <<rounds, redirects, redirectTarget>>
       \/ /\ \E bprompt \in Prompts : Prompted(bprompt)
          /\ UNCHANGED ioFailed
    /\ lastChallenge' = <<>>
    /\ lastSent' = <<>>
    /\ UNCHANGED <<Username, Password, Language>>
    /\ UNCHANGED <<reply, lastCall>>
    /\ UNCHANGED exchangeVars
    /\ UNCHANGED frameVars
    /\ UNCHANGED queryVars
    /\ UNCHANGED driverVars

\* What putBlock may do on the session's connection: succeed or fail on an
\* open connection, fail on a closed one. On a nil connection (State set to
\* ready by line 392 after a nested Connect could not dial) the call of
\* c.conn.Write through a nil *net.TCPConn either panics or reports an error.
PutOutcomes ==
    IF conn.nil THEN {"err", "panic"}
    ELSE IF conn.open THEN {"ok", "err"}
    ELSE {"err"}

\* cmd, lines 261-267, once State is found ready: the operation is written.
\* Written while the response of another command is still to come (the
\* caller and a background task both in cmd), the two commands race for the
\* connection.
CmdPut(put, failedBefore) ==
    /\ pc' = CASE put = "ok" /\ pc = "cmd" -> "race"
               [] put = "ok" -> "cmd"
               [] put = "err" -> "idle"
               [] OTHER -> "panic"
    /\ result' = IF put = "err" THEN "io" ELSE "pending"
    /\ reply' = <<>>
    /\ errText' = <<>>
    /\ lastResp' = <<"none">>
    /\ ioFailed' = (failedBefore \/ put = "err")
    /\ broken' = (broken \/ put = "err")
    /\ outstanding' = IF put = "ok" /\ ~broken THEN outstanding + 1
                      ELSE outstanding

\* cmd, lines 261-263: the session is not ready.
CmdNotConnected ==
    /\ result' = "not connected"
    /\ reply' = <<>>
    /\ errText' = <<>>
    /\ lastResp' = <<"none">>
    /\ pc' = "idle"
    /\ ioFailed' = FALSE
    /\ UNCHANGED <<broken, outstanding>>

\* The history of the handshake is that of the running Connect, or of the
\* Connect that returned last until another call is made.
HandshakeForgotten ==
    /\ rounds' = 0
    /\ lastChallenge' = <<>>
    /\ lastSent' = <<>>
    /\ lastPrompt' = <<"none">>
    /\ redirects' = 0
    /\ redirectTarget' = <<"none">>

\* Whoever calls on the session is not inside another call of its own: the
\* caller is not waiting in mapiDo, and the cmd in progress, if there is one,
\* is the background task's.
CallerFree ==
    /\ rowsPc = "idle"
    /\ \/ pc = "idle"
       \/ pc = "cmd" /\ task = "background"

\* The caller calls cmd (through Execute or a Set command).
CallCmd ==
    /\ CallerFree
    /\ lastCall # "none"
    /\ lastCall' = "cmd"
    /\ prevResult' = IF lastCall \in {"cmd", "fetch"} THEN result ELSE "none"
    /\ task' = "caller"
    /\ IF State # mapi_STATE_READY
       THEN CmdNotConnected
       ELSE \E put \in PutOutcomes : CmdPut(put, FALSE)
    /\ HandshakeForgotten
    /\ UNCHANGED sessionVars
    /\ UNCHANGED <<iteration, nested>>
    /\ UNCHANGED <<rowsPc, ctxDone, chan>>
    /\ UNCHANGED frameVars
    /\ UNCHANGED queryVars
    /\ UNCHANGED driverVars

\* mapiDo's select (lines 683-689) may return: on ctx.Done() it first waits
\* for the result of the background task (line 685), so in either case only
\* once the result has been delivered.
MapiDoMayReturn_NoWait(done, delivered) == done \/ delivered

MapiDoMayReturn(done, delivered) == delivered

\* Rows.fetchNext calls mapiDo (line 701), which starts the background task
\* (lines 677-681); the task calls FetchNext, that is cmd("Xexport ...").
RowsFetchNext ==
    /\ CallerFree
    /\ lastCall # "none"
    /\ lastCall' = "fetch"
    /\ prevResult' = IF lastCall \in {"cmd", "fetch"} THEN result ELSE "none"
    /\ task' = "background"
    /\ rowsPc' = "select"
    /\ \E done \in BOOLEAN : ctxDone' = done
    /\ IF State # mapi_STATE_READY
       THEN CmdNotConnected /\ chan' = <<"delivered">>
       ELSE \E put \in PutOutcomes :
              /\ CmdPut(put, FALSE)
              /\ chan' = IF put = "err" THEN <<"delivered">> ELSE <<>>
    /\ HandshakeForgotten
    /\ UNCHANGED sessionVars
    /\ UNCHANGED <<iteration, nested>>
    /\ UNCHANGED frameVars
    /\ UNCHANGED queryVars
    /\ UNCHANGED driverVars

\* mapiDo, lines 683-689: the select returns the delivered result, or, the
\* context being done, the context's error.
MapiDoSelect ==
    /\ rowsPc = "select"
    /\ MapiDoMayReturn(ctxDone, chan # <<>>)
    /\ rowsPc' = "idle"
    /\ chan' = <<>>
    /\ \/ /\ chan # <<>>
          /\ UNCHANGED <<result, reply, errText>>
       \/ /\ ctxDone
          /\ result' = "context canceled"
          /\ reply' = <<>>
          /\ errText' = <<>>
    /\ UNCHANGED sessionVars
    /\ UNCHANGED <<pc, iteration, nested, lastCall>>
    /\ UNCHANGED historyVars
    /\ UNCHANGED <<lastResp, prevResult, outstanding, broken, task, ctxDone>>
    /\ UNCHANGED frameVars
    /\ UNCHANGED queryVars
    /\ UNCHANGED driverVars

\* cmd, lines 274-293: what cmd makes of the response it has read. On the
\* "more" marker it calls cmd("") and returns what that returns.
CmdOutcome_ErrorKeepsText(resp) ==
    IF HasPrefix(resp, mapi_MSG_ERROR)
    THEN [more |-> FALSE, result |-> "operational error",
          reply |-> Tail(resp), errText |-> Tail(resp)]
    ELSE [more |-> FALSE, result |-> "nil", reply |-> resp, errText |-> <<>>]

CmdOutcome(resp) ==
    IF Len(resp) = 0
    THEN [more |-> FALSE, result |-> "nil", reply |-> <<>>, errText |-> <<>>]
    ELSE IF HasPrefix(resp, mapi_MSG_OK)
    THEN [more |-> FALSE, result |-> "nil",
          reply |-> TrimSpace(SubSeq(resp, 4, Len(resp))), errText |-> <<>>]
    ELSE IF resp = mapi_MSG_MORE
    THEN [more |-> TRUE, result |-> "pending", reply |-> <<>>, errText |-> <<>>]
    ELSE IF \/ HasPrefix(resp, mapi_MSG_Q)
            \/ HasPrefix(resp, mapi_MSG_HEADER)
            \/ HasPrefix(resp, mapi_MSG_TUPLE)
    THEN [more |-> FALSE, result |-> "nil", reply |-> resp, errText |-> <<>>]
    ELSE IF HasPrefix(resp, mapi_MSG_ERROR)
    THEN [more |-> FALSE, result |-> "operational error", reply |-> <<>>,
          errText |-> Tail(resp)]
    ELSE [more |-> FALSE, result |-> "unknown state", reply |-> <<>>,
          errText |-> resp]

\* A background task that keeps what cmd returned to itself.
Deliver_Never(returns) == chan' = chan

\* The background task delivers what cmd returned into the channel (line 680).
Deliver(returns) ==
    chan' = IF returns /\ task = "background" THEN <<"delivered">> ELSE chan

\* cmd, lines 269-293: the response is read and classified.
CmdResponse ==
    /\ pc = "cmd"
    /\ \/ \* getBlock fails
          /\ ioFailed' = TRUE
          /\ broken' = TRUE
          /\ result' = "io"
          /\ reply' = <<>>
          /\ errText' = <<>>
          /\ pc' = "idle"
          /\ Deliver(TRUE)
          /\ UNCHANGED <<lastResp, outstanding>>
       \/ \E resp \in Responses :
            LET out == CmdOutcome(resp)
                received == IF broken THEN outstanding ELSE outstanding - 1
            IN  IF out.more
                THEN \E put \in PutOutcomes :
                       /\ pc' = CASE put = "ok" -> "cmd"
                                  [] put = "err" -> "idle"
                                  [] OTHER -> "panic"
                       /\ result' = IF put = "err" THEN "io" ELSE "pending"
                       /\ reply' = <<>>
                       /\ errText' = <<>>
                       /\ lastResp' = IF put = "ok" THEN <<"none">> ELSE resp
                       /\ ioFailed' = (ioFailed \/ put = "err")
                       /\ broken' = (broken \/ put = "err")
                       /\ outstanding' = IF put = "ok" /\ ~broken
                                         THEN received + 1 ELSE received
                       /\ Deliver(put = "err")
                ELSE /\ result' = out.result
                     /\ reply' = out.reply
                     /\ errText' = out.errText
                     /\ lastResp' = resp
                     /\ pc' = "idle"
                     /\ outstanding' = received
                     /\ Deliver(TRUE)
                     /\ UNCHANGED <<ioFailed, broken>>
    /\ UNCHANGED sessionVars
    /\ UNCHANGED <<iteration, nested, lastCall>>
    /\ UNCHANGED <<rounds, lastChallenge, lastSent, lastPrompt, redirects,
                   redirectTarget>>
    /\ UNCHANGED <<prevResult, task, rowsPc, ctxDone>>
    /\ UNCHANGED frameVars
    /\ UNCHANGED queryVars
    /\ UNCHANGED driverVars

\* Disconnect: State is reset and the connection closed and dropped.
Disconnect ==
    /\ pc = "idle"
    /\ rowsPc = "idle"
    /\ lastCall \in {"Connect", "cmd", "fetch"}
    /\ lastCall' = "Disconnect"
    /\ State' = mapi_STATE_INIT
    /\ conn' = NilConn
    /\ result' = "nil"
    /\ reply' = <<>>
    /\ errText' = <<>>
    /\ lastResp' = <<"none">>
    /\ prevResult' = "none"
    /\ outstanding' = 0
    /\ broken' = FALSE
    /\ UNCHANGED <<Hostname, Port, Username, Password, Database, Language>>
    /\ UNCHANGED <<pc, iteration, nested>>
    /\ UNCHANGED historyVars
    /\ UNCHANGED <<task, rowsPc, ctxDone, chan>>
    /\ UNCHANGED frameVars
    /\ UNCHANGED queryVars
    /\ UNCHANGED driverVars

LoginInit ==
    /\ FrameIdle(<<>>)
    /\ \E password \in {<<"p">>, <<"q">>} :
         NewMapi(<<"u">>, password, <<"a">>, 50, <<"x">>)
    /\ QueryIdle
    /\ DriverIdle

LoginNext ==
    \/ CallConnect
    \/ ConnectDial
    \/ TryLoginChallenge
    \/ TryLoginPrompt
    \/ CallCmd
    \/ RowsFetchNext
    \/ MapiDoSelect
    \/ CmdResponse
    \/ Disconnect

SpecLogin == LoginInit /\ [][LoginNext]_vars

\* The caller, the client and the server all go on taking their steps.
FairSpecLogin == SpecLogin /\ WF_vars(LoginNext)

(***************************************************************************)
(* Part II.  Properties of the login handshake                             *)
(***************************************************************************)

ConnectReturned == pc = "idle" /\ lastCall = "Connect"

\* A successful terminal response: empty, "=OK" or info-prefixed.
SuccessPrompt(p) ==
    LET q == TrimSpace(p)
    IN  q = <<>> \/ q = <<"=", "O", "K">> \/ (q # <<>> /\ q[1] = "#")

\* A prompt the login must reject: error-prefixed, a redirect to an unknown
\* target, or anything else that is neither a success nor a redirect to a
\* merovingian or monetdb target.
RejectedPrompt(p) ==
    /\ p # <<"none">>
    /\ ~SuccessPrompt(p)
    /\ ~HasPrefix(p, MAPI \o <<"m", "e", "r", "o", "v", "i", "n", "g", "i", "a", "n", ":">>)
    /\ ~HasPrefix(p, MAPI \o <<"m", "o", "n", "e", "t", "d", "b", ":">>)

\* C4: Connect returns success if and only if State is Ready afterwards; State
\* is Ready only when the last prompt received in the login was a successful
\* terminal response; an error-prefixed prompt, an unknown redirect target or
\* any other unrecognised prompt, also one received after a redirect, makes
\* Connect return an error and leaves State not Ready.
C4_ReadyIffSuccess ==
    ConnectReturned =>
        /\ (result = "nil") <=> (State = mapi_STATE_READY)
        /\ (State = mapi_STATE_READY) => SuccessPrompt(lastPrompt)
        /\ RejectedPrompt(lastPrompt) =>
              (result # "nil" /\ State # mapi_STATE_READY)

\* C5: when the server answers the login with a merovingian redirect more
\* than 10 times in a row, Connect fails with the 'maximal number of
\* redirects reached' error and the session does not become Ready.
C5_TooManyRedirectsFail ==
    (ConnectReturned /\ redirects > 10) =>
        (result = "maximal number of redirects" /\ State # mapi_STATE_READY)

\* C6: within one login the handshake is restarted on the same connection at
\* most 10 times: the challenge/response rounds performed on one connection
\* never exceed 11.
C6_AtMostElevenRounds == rounds <= 11

\* C7: against every server behaviour, also a server that answers every
\* handshake with a redirect of either kind, the handshake rounds and
\* reconnects of one Connect call are bounded and Connect eventually returns.
C7_ConnectReturns ==
    (pc = "connect" /\ ~nested) ~> (pc \in {"idle", "panic"})

\* The number a redirect's port text denotes.
PortNumber(text) == DecimalValue(text)

\* C8: on a redirect prompt naming a monetdb target host:port/database the
\* session sets Hostname, Port and Database to the redirect's values and
\* closes the connection before it opens a new one to that target, on which
\* the handshake runs from the challenge step; when that handshake ends with
\* a successful prompt, Connect succeeds with State Ready and the session
\* fields name the new target.
C8_DirectRedirect ==
    \A g \in RedirectTargets :
        redirectTarget = MonetdbRedirect(g.host, g.port, g.database) =>
            /\ (pc = "connect" /\ lastPrompt = redirectTarget) =>
                  /\ Hostname = g.host
                  /\ Port = PortNumber(g.port)
                  /\ Database = g.database
                  /\ ~conn.nil /\ ~conn.open
                  /\ nested
            /\ pc \in {"challenge", "prompt"} =>
                  /\ conn.open
                  /\ conn.host = g.host /\ conn.port = PortNumber(g.port)
                  /\ Database = g.database
                  /\ rounds = iteration + (IF pc = "prompt" THEN 1 ELSE 0)
            /\ (ConnectReturned /\ SuccessPrompt(lastPrompt)) =>
                  /\ result = "nil"
                  /\ State = mapi_STATE_READY
                  /\ Hostname = g.host
                  /\ Port = PortNumber(g.port)
                  /\ Database = g.database
                  /\ conn.open
                  /\ conn.host = g.host /\ conn.port = PortNumber(g.port)

\* Connect has returned after one redirect to b:51/y and a handshake on the
\* new connection that ended with "=OK".
C8_RedirectedAndReady ==
    /\ ConnectReturned
    /\ redirectTarget = MonetdbRedirect(<<"b">>, <<"5", "1">>, <<"y">>)
    /\ lastPrompt = mapi_MSG_OK
    /\ State = mapi_STATE_READY
    /\ Hostname = <<"b">> /\ Port = 51 /\ Database = <<"y">>

\* C9: a read or write failure on the connection at any step of the login or
\* of a command is returned to the caller as an error; no partially received
\* message is returned as data and no operation reports success after it.
C9_IoFailureIsReturned ==
    (pc = "idle" /\ lastCall \in {"Connect", "cmd"} /\ ioFailed) =>
        (result # "nil" /\ reply = <<>>)

\* The hash names a challenge offers.
OfferedHashes(challenge) ==
    LET names == Split(Split(challenge, ":")[4], ",")
    IN  {names[i] : i \in 1..Len(names)}

\* A challenge challengeResponse answers: protocol "9", password algorithm
\* SHA512, and SHA1 or MD5 among the hashes offered.
Answerable(challenge) ==
    LET t == Split(challenge, ":")
    IN  /\ Len(t) >= 6
        /\ t[3] = <<"9">>
        /\ t[6] = SHA512
        /\ OfferedHashes(challenge) \cap {SHA1, MD5} # {}

\* The response the claim names: SHA1 whenever it is offered, else MD5.
ExpectedResponse(challenge) ==
    LET salt == Split(challenge, ":")[1]
        algo == IF SHA1 \in OfferedHashes(challenge) THEN SHA1 ELSE MD5
        p    == HexDigest(SHA512, Password)
    IN  Join(<< <<"B", "I", "G">>, Username,
                <<"{">> \o algo \o <<"}">> \o HexDigest(algo, p \o salt),
                Language, Database, <<>> >>, ":")

\* C10: challengeResponse is a function of (challenge, username, password,
\* language, database); it fails, and no login response is sent, when the
\* protocol field is not "9", the password algorithm is unsupported or the
\* hash list holds neither SHA1 nor MD5; otherwise it returns "BIG:" user ":"
\* pwhash ":" language ":" database ":" with SHA1 whenever SHA1 is offered and
\* MD5 only when it is not.
C10_ChallengeResponse ==
    (lastCall = "Connect" /\ lastChallenge # <<>>) =>
        IF Answerable(lastChallenge)
        THEN /\ pc = "prompt"
             /\ lastSent \in {<<>>, ExpectedResponse(lastChallenge)}
             /\ (~ioFailed => lastSent = ExpectedResponse(lastChallenge))
        ELSE /\ pc \in {"idle", "panic"}
             /\ lastSent = <<>>
             /\ (ConnectReturned /\ lastPrompt = <<"none">>) =>
                   result \in {"protocol", "algorithm", "hash"}

\* The server offered MD5 before SHA1, and the response sent uses SHA1.
C10_Sha1Preferred ==
    /\ pc = "prompt"
    /\ lastChallenge = Challenge(<<"s">>, <<"9">>, MD5 \o <<",">> \o SHA1, SHA512)
    /\ lastSent = ExpectedResponse(lastChallenge)
    /\ Contains(lastSent, <<"{">> \o SHA1 \o <<"}">>)

(***************************************************************************)
(* Properties of the command exchange.                                     *)
(***************************************************************************)
\* A cmd called by the caller has returned.
CmdReturned == pc = "idle" /\ rowsPc = "idle" /\ lastCall = "cmd"

\* C11: when the response to a command begins with '!', cmd returns an
\* operational error that carries the text after the '!' and returns no
\* result text, and State stays ready on an open connection with nothing
\* outstanding; the command issued next is sent, and the response it reads is
\* returned as after any other command: a result (& % [) whole with no
\* error, an acknowledgement (=OK) with no error.
C11_ServerErrorIsRecoverable ==
    /\ (CmdReturned /\ HasPrefix(lastResp, mapi_MSG_ERROR)) =>
           /\ result = "operational error"
           /\ errText = Tail(lastResp)
           /\ reply = <<>>
           /\ State = mapi_STATE_READY
           /\ conn.open
           /\ (~broken => outstanding = 0)
    /\ (CmdReturned /\ prevResult = "operational error") =>
           /\ result # "not connected"
           /\ (~ioFailed => lastResp # <<"none">>)
           /\ \A prefix \in {mapi_MSG_Q, mapi_MSG_HEADER, mapi_MSG_TUPLE} :
                HasPrefix(lastResp, prefix) =>
                    result = "nil" /\ reply = lastResp
           /\ HasPrefix(lastResp, mapi_MSG_OK) => result = "nil"

\* Witness of C11: a command was answered with an error, and the next
\* command on the session was sent and has returned a result.
C11_CommandAfterError ==
    /\ CmdReturned
    /\ prevResult = "operational error"
    /\ result = "nil"
    /\ reply = <<"&", "1", " ", "0">>

\* C12: on a transport that has not failed, sends and receives alternate: at
\* most one message is outstanding, one is outstanding exactly while a cmd
\* waits for its response, and none when a command has returned, whether the
\* caller ran it or mapiDo's background task did; the caller is never back
\* from mapiDo while the task's command is in progress.
C12_HalfDuplex ==
    /\ ~broken =>
           /\ outstanding \in {0, 1}
           /\ (outstanding = 1) <=> (pc = "cmd")
    /\ pc # "race"
    /\ (pc = "cmd" /\ task = "background") => rowsPc = "select"

\* Witness of C12: the context of a fetch was done, and mapiDo has returned
\* its error, after the background task received the response.
C12_CancelledFetchDrained ==
    /\ lastCall = "fetch"
    /\ rowsPc = "idle"
    /\ pc = "idle"
    /\ result = "context canceled"
    /\ lastResp # <<"none">>
    /\ ~broken
    /\ outstanding = 0

(***************************************************************************)
(* Part III. The query object: the cursor-based query (NewQuery,           *)
(* StoreResult, Result, HasNextResultSet, NextResultSet) and the v2 query, *)
(* whose StoreResult works on its one ResultSet.                           *)
(*                                                                         *)
(* StoreResult is modelled line by line. What it works on is a record of   *)
(* the ResultSets, the cursor, the column arrays and addedResultSets; for  *)
(* the v2 query, which has no cursor, the record holds its one ResultSet   *)
(* under cursor 0.                                                         *)
(***************************************************************************)
\* A prompt recognised by a prefix test: every line has the empty prefix.
IsPrompt_Prefix(line) == HasPrefix(line, mapi_MSG_PROMPT)

\* getLineType, line 84: a prompt is recognised by an exact match.
IsPrompt(line) == line = mapi_MSG_PROMPT

\* The chain of getLineType with a line of no known prefix taken for an
\* info line.
getLineType_UnknownIsInfo(line) ==
    IF line = mapi_MSG_PROMPT THEN "PROMT"
    ELSE IF HasPrefix(line, mapi_MSG_INFO) THEN "INFO"
    ELSE IF HasPrefix(line, mapi_MSG_ERROR) THEN "ERROR"
    ELSE IF HasPrefix(line, mapi_MSG_QPREPARE) THEN "QPREPARE"
    ELSE IF HasPrefix(line, mapi_MSG_QTABLE) THEN "QTABLE"
    ELSE IF HasPrefix(line, mapi_MSG_TUPLE) THEN "TUPLE"
    ELSE IF HasPrefix(line, mapi_MSG_QBLOCK) THEN "QBLOCK"
    ELSE IF HasPrefix(line, mapi_MSG_QSCHEMA) THEN "QSCHEMA"
    ELSE IF HasPrefix(line, mapi_MSG_QUPDATE) THEN "QUPDATE"
    ELSE IF HasPrefix(line, mapi_MSG_QTRANS) THEN "QTRANS"
    ELSE IF HasPrefix(line, mapi_MSG_HEADER) THEN "HEADER"
    ELSE "INFO"

\* getLineType, lines 79-110.
getLineType(line) ==
    IF IsPrompt(line) THEN "PROMT"
    ELSE IF HasPrefix(line, mapi_MSG_INFO) THEN "INFO"
    ELSE IF HasPrefix(line, mapi_MSG_ERROR) THEN "ERROR"
    ELSE IF HasPrefix(line, mapi_MSG_QPREPARE) THEN "QPREPARE"
    ELSE IF HasPrefix(line, mapi_MSG_QTABLE) THEN "QTABLE"
    ELSE IF HasPrefix(line, mapi_MSG_TUPLE) THEN "TUPLE"
    ELSE IF HasPrefix(line, mapi_MSG_QBLOCK) THEN "QBLOCK"
    ELSE IF HasPrefix(line, mapi_MSG_QSCHEMA) THEN "QSCHEMA"
    ELSE IF HasPrefix(line, mapi_MSG_QUPDATE) THEN "QUPDATE"
    ELSE IF HasPrefix(line, mapi_MSG_QTRANS) THEN "QTRANS"
    ELSE IF HasPrefix(line, mapi_MSG_HEADER) THEN "HEADER"
    ELSE "UNKNOWN"

\* The chain of prefix tests of the v2 StoreResult (query.go, lines 68-173),
\* in its order: the test for the prompt, the empty prefix, comes before the
\* test for the error prefix. A line that passes no test is skipped.
LineTypeV2(line) ==
    IF HasPrefix(line, mapi_MSG_INFO) THEN "INFO"
    ELSE IF HasPrefix(line, mapi_MSG_QPREPARE) THEN "QPREPARE"
    ELSE IF HasPrefix(line, mapi_MSG_QTABLE) THEN "QTABLE"
    ELSE IF HasPrefix(line, mapi_MSG_TUPLE) THEN "TUPLE"
    ELSE IF HasPrefix(line, mapi_MSG_QBLOCK) THEN "QBLOCK"
    ELSE IF HasPrefix(line, mapi_MSG_QSCHEMA) THEN "QSCHEMA"
    ELSE IF HasPrefix(line, mapi_MSG_QUPDATE) THEN "QUPDATE"
    ELSE IF HasPrefix(line, mapi_MSG_QTRANS) THEN "QTRANS"
    ELSE IF HasPrefix(line, mapi_MSG_HEADER) THEN "HEADER"
    ELSE IF HasPrefix(line, mapi_MSG_PROMPT) THEN "PROMT"
    ELSE IF HasPrefix(line, mapi_MSG_ERROR) THEN "ERROR"
    ELSE "INFO"

\* The decoded values of the model: an integer, or the null value.
IntValue(n) == [null |-> FALSE, n |-> n]

NullValue == [null |-> TRUE, n |-> 0]

\* convertToGo (the value codec): space around the field is dropped; the null
\* sentinel decodes to the null value whatever the type; a field of type int
\* parses as a number or is a decoding error. The model has no other type:
\* another type name is an error.
convertToGo(value, dataType) ==
    LET v == TrimSpace(value)
    IN  IF v = <<"N", "U", "L", "L">>
        THEN [ok |-> TRUE, v |-> NullValue, text |-> <<>>]
        ELSE IF dataType # <<"i", "n", "t">>
        THEN [ok |-> FALSE, v |-> NullValue, text |-> dataType]
        ELSE IF AtoiOk(v)
        THEN [ok |-> TRUE, v |-> IntValue(Atoi(v)), text |-> <<>>]
        ELSE [ok |-> FALSE, v |-> NullValue, text |-> v]

\* parseTuple accepting a line of any number of fields.
parseTuple_NoLengthCheck(s, d) ==
    LET items == SplitOn(SubSeq(d, 2, Len(d) - 1), <<",", "\t">>)
    IN  [kind |-> "ok", text |-> <<>>,
         v |-> [i \in 1..Len(items) |->
                   convertToGo(items[i], <<"i", "n", "t">>).v]]

\* ResultSet.parseTuple (resultset.go, lines 40-55). d[1:len(d)-1] of a line
\* of one character panics.
parseTuple(s, d) ==
    IF Len(d) < 2 THEN [kind |-> "panic", text |-> <<>>, v |-> <<>>]
    ELSE
    LET items == SplitOn(SubSeq(d, 2, Len(d) - 1), <<",", "\t">>)
        conv == [i \in 1..Len(items) |->
                    IF i <= Len(s.Schema)
                    THEN convertToGo(items[i], s.Schema[i].ColumnType)
                    ELSE convertToGo(items[i], <<>>)]
        failed == {i \in 1..Len(items) : ~conv[i].ok}
    IN  IF Len(items) # Len(s.Schema)
        THEN [kind |-> "length of row doesn't match header", text |-> <<>>,
              v |-> <<>>]
        ELSE IF failed # {}
        THEN [kind |-> "conversion error",
              text |-> conv[CHOOSE i \in failed : \A j \in failed : i <= j].text,
              v |-> <<>>]
        ELSE [kind |-> "ok", text |-> <<>>,
              v |-> [i \in 1..Len(items) |-> conv[i].v]]

\* What processing one line comes to: the loop goes on, StoreResult returns
\* (nil or an error), or the code panics (an index out of range, a nil
\* ResultSet).
Continue(st) == [st |-> st, ret |-> "continue", err |-> NoError]

ReturnNil(st) == [st |-> st, ret |-> "return", err |-> NoError]

ReturnError(st, kind, text) ==
    [st |-> st, ret |-> "return", err |-> [kind |-> kind, text |-> text]]

Panics(st) ==
    [st |-> st, ret |-> "panic", err |-> [kind |-> "panic", text |-> <<>>]]

\* Result(), lines 54-59: nil when the cursor is -1, else the ResultSet at
\* the cursor (for the v2 query, resultSets[0]).
HasResult(st) == st.cursor # 0 - 1

Result(st) == st.resultSets[st.cursor + 1]

\* An assignment through Result().
WithResult(st, rs) == [st EXCEPT !.resultSets[st.cursor + 1] = rs]

\* newResultSet, lines 112-117. The v2 query has none: it keeps its one
\* ResultSet.
newResultSet(impl, st) ==
    IF impl = "v2" THEN st
    ELSE [st EXCEPT !.resultSets = Append(@, EmptyResultSet),
                    !.cursor = @ + 1]

\* A v2 query that opened ResultSets as the cursor-based one does.
Opened_V2Too(impl, st) ==
    [st EXCEPT !.resultSets = Append(@, EmptyResultSet), !.cursor = @ + 1,
               !.added = TRUE]

\* newResultSet() followed by addedResultSets = true.
Opened(impl, st) ==
    IF impl = "v2" THEN st
    ELSE [newResultSet(impl, st) EXCEPT !.added = TRUE]

\* strings.Split(strings.TrimSpace(line[2:]), " ")
Fields(line) == Split(TrimSpace(SubSeq(line, 3, Len(line))), " ")

\* make([]string, n), make([]int, n) for the seven column arrays.
MakeColumns(n) ==
    [columnNames |-> [i \in 1..n |-> <<>>],
     columnTypes |-> [i \in 1..n |-> <<>>],
     displaySizes |-> [i \in 1..n |-> 0],
     internalSizes |-> [i \in 1..n |-> 0],
     precisions |-> [i \in 1..n |-> 0],
     scales |-> [i \in 1..n |-> 0],
     nullOks |-> [i \in 1..n |-> 0]]

\* The table header read with row count and column count exchanged.
TableHeader_Swapped(t) ==
    [QueryId |-> Atoi(t[1]), RowCount |-> Atoi(t[3]),
     ColumnCount |-> Atoi(t[2])]

\* Lines 147-149: query id, row count and column count of a table header.
TableHeader(t) ==
    [QueryId |-> Atoi(t[1]), RowCount |-> Atoi(t[2]),
     ColumnCount |-> Atoi(t[3])]

\* QTABLE, lines 142-157.
StoreTable(impl, st, line) ==
    LET t == Fields(line)
        o == Opened(impl, st)
    IN  IF Len(t) < 3 THEN Panics(o)
        ELSE LET h == TableHeader(t)
             IN  IF h.ColumnCount < 0 THEN Panics(o)
                 ELSE Continue(
                        [WithResult(o, [Result(o) EXCEPT
                                           !.QueryId = h.QueryId,
                                           !.RowCount = h.RowCount,
                                           !.ColumnCount = h.ColumnCount])
                            EXCEPT !.columns = MakeColumns(h.ColumnCount)])

\* TUPLE, lines 159-164.
StoreTuple(st, line) ==
    IF ~HasResult(st) THEN Panics(st)
    ELSE LET p == parseTuple(Result(st), line)
         IN  CASE p.kind = "panic" -> Panics(st)
               [] p.kind = "ok" ->
                    Continue(WithResult(st, [Result(st) EXCEPT
                                                !.Rows = Append(@, p.v)]))
               [] OTHER -> ReturnError(st, p.kind, p.text)

\* QBLOCK, lines 166-167.
StoreBlock(st) ==
    IF ~HasResult(st) THEN Panics(st)
    ELSE Continue(WithResult(st, [Result(st) EXCEPT !.Rows = <<>>]))

\* QSCHEMA and QTRANS, lines 169-177 and 189-197.
StoreBoundary(impl, st) ==
    LET o == Opened(impl, st)
    IN  Continue(WithResult(o, [Result(o) EXCEPT !.Offset = 0,
                                                  !.Rows = <<>>,
                                                  !.LastRowId = 0,
                                                  !.Schema = <<>>,
                                                  !.RowCount = 0]))

\* An update line that opens a ResultSet of its own every time.
UpdateOpens_Always(cursor) == TRUE

\* Line 180: an update line opens a ResultSet when the cursor is -1.
UpdateOpens(cursor) == cursor = 0 - 1

\* QUPDATE, lines 179-187.
StoreUpdate(impl, st, line) ==
    LET o == IF UpdateOpens(st.cursor) THEN Opened(impl, st) ELSE st
        t == Fields(line)
    IN  IF Len(t) < 2 THEN Panics(o)
        ELSE Continue(WithResult(o, [Result(o) EXCEPT
                                        !.RowCount = Atoi(t[1]),
                                        !.LastRowId = Atoi(t[2])]))

\* QPREPARE, lines 135-140.
StorePrepare(impl, st, line) ==
    LET o == newResultSet(impl, st)
    IN  ReturnNil(WithResult(o, [Result(o) EXCEPT
                                    !.ExecId = Atoi(Fields(line)[1])]))

\* updateSchema (resultset.go, lines 57-76) and lines 243-246.
UpdateSchema(st) ==
    LET c == st.columns
        n == Len(c.columnNames)
    IN  IF \/ ~HasResult(st)
           \/ Len(c.columnTypes) < n \/ Len(c.displaySizes) < n
           \/ Len(c.internalSizes) < n \/ Len(c.precisions) < n
           \/ Len(c.scales) < n \/ Len(c.nullOks) < n
        THEN Panics(st)
        ELSE Continue(WithResult(st, [Result(st) EXCEPT
                 !.Schema = [i \in 1..n |->
                                [ColumnName |-> c.columnNames[i],
                                 ColumnType |-> c.columnTypes[i],
                                 DisplaySize |-> c.displaySizes[i],
                                 InternalSize |-> c.internalSizes[i],
                                 Precision |-> c.precisions[i],
                                 Scale |-> c.scales[i],
                                 NullOk |-> c.nullOks[i]]],
                 !.Offset = 0,
                 !.LastRowId = 0]))

\* No column taken for a decimal one.
DecimalColumns_None(columnTypes) == {}

\* Lines 225-226: the columns whose declared type is decimal.
DecimalColumns(columnTypes) ==
    {j \in 1..Len(columnTypes) :
        columnTypes[j] = <<"d", "e", "c", "i", "m", "a", "l">>}

\* HEADER, lines 199-246.
StoreHeader(st, line) ==
    LET t == Split(Tail(line), "#")
    IN  IF Len(t) < 2 THEN Panics(st)
        ELSE
        LET data == TrimSpace(t[1])
            identity == TrimSpace(t[2])
            parts == Split(data, ",")
            values == [i \in 1..Len(parts) |-> TrimSpace(parts[i])]
            sizes == [i \in 1..Len(values) |->
                        LET ss == Split(values[i], " ")
                        IN  [k \in 1..Len(ss) |-> Atoi(ss[k])]]
            c == st.columns
            decimals == DecimalColumns(c.columnTypes)
        IN  IF identity = <<"n", "a", "m", "e">>
            THEN UpdateSchema([st EXCEPT !.columns.columnNames = values])
            ELSE IF identity = <<"t", "y", "p", "e">>
            THEN UpdateSchema([st EXCEPT !.columns.columnTypes = values])
            ELSE IF identity = <<"t", "y", "p", "e", "s", "i", "z", "e", "s">>
            THEN IF \/ Len(values) > Len(c.internalSizes)
                    \/ \E j \in decimals :
                          \/ j > Len(sizes) \/ j > Len(c.precisions)
                          \/ j > Len(c.scales) \/ Len(sizes[j]) < 2
                 THEN Panics(st)
                 ELSE UpdateSchema([st EXCEPT
                        !.columns.internalSizes =
                            [i \in 1..Len(c.internalSizes) |->
                                IF i <= Len(values) THEN sizes[i][1]
                                ELSE c.internalSizes[i]],
                        !.columns.precisions =
                            [j \in 1..Len(c.precisions) |->
                                IF j \in decimals THEN sizes[j][1]
                                ELSE c.precisions[j]],
                        !.columns.scales =
                            [j \in 1..Len(c.scales) |->
                                IF j \in decimals THEN sizes[j][2]
                                ELSE c.scales[j]]])
            ELSE IF identity = <<"l", "e", "n", "g", "t", "h">>
            THEN IF Len(values) > Len(c.displaySizes) THEN Panics(st)
                 ELSE UpdateSchema([st EXCEPT
                        !.columns.displaySizes =
                            [i \in 1..Len(c.displaySizes) |->
                                IF i <= Len(values) THEN sizes[i][1]
                                ELSE c.displaySizes[i]]])
            ELSE UpdateSchema(st)

\* One iteration of StoreResult's loop (lines 130-261; for the v2 query,
\* query.go lines 67-174, where the prompt does not touch a cursor).
StoreLine(impl, st, line) ==
    LET type == IF impl = "v2" THEN LineTypeV2(line) ELSE getLineType(line)
    IN  CASE type = "INFO" -> Continue(st)
          [] type = "QPREPARE" -> StorePrepare(impl, st, line)
          [] type = "QTABLE" -> StoreTable(impl, st, line)
          [] type = "TUPLE" -> StoreTuple(st, line)
          [] type = "QBLOCK" -> StoreBlock(st)
          [] type = "QSCHEMA" -> StoreBoundary(impl, st)
          [] type = "QUPDATE" -> StoreUpdate(impl, st, line)
          [] type = "QTRANS" -> StoreBoundary(impl, st)
          [] type = "HEADER" -> StoreHeader(st, line)
          [] type = "PROMT" ->
                ReturnNil(IF impl # "v2" /\ st.added
                          THEN [st EXCEPT !.cursor = 0] ELSE st)
          [] type = "ERROR" -> ReturnError(st, "database error", Tail(line))
          [] OTHER -> ReturnError(st, "protocol error", line)

\* The v2 StoreResult (query.go, lines 58-177) run over the lines of a
\* response: the ResultSet it leaves, what it returns, and the line at which
\* it returned (<<"none">>: the lines were exhausted).
RECURSIVE StoreLinesV2(_, _, _)
StoreLinesV2(st, ls, response) ==
    IF ls = <<>>
    THEN [rs |-> Result(st), kind |-> "unknown state", text |-> response,
          line |-> <<"none">>]
    ELSE LET out == StoreLine("v2", st, Head(ls))
         IN  IF out.ret = "continue"
             THEN StoreLinesV2(out.st, Tail(ls), response)
             ELSE [rs |-> Result(out.st), kind |-> out.err.kind,
                   text |-> out.err.text, line |-> Head(ls)]

StoreResultV2(rs, response) ==
    StoreLinesV2([resultSets |-> <<rs>>, cursor |-> 0, columns |-> NoColumns,
                  added |-> FALSE],
                 Split(response, "\n"), response)

(***************************************************************************)
(* The responses given to StoreResult: lines the server sends, joined by   *)
(* newlines. A response ends with a newline, so that its last line is the  *)
(* empty line, the prompt; one response of the model lacks it.             *)
(***************************************************************************)
LineTableA == <<"&", "1", " ", "1", " ", "3", " ", "2", " ", "3">>

LineNamesA == <<"%", " ", "a", ",", "\t", "b", " ", "#", " ", "n", "a", "m", "e">>

LineTypesA == <<"%", " ", "i", "n", "t", ",", "\t", "i", "n", "t", " ", "#", " ", "t", "y", "p", "e">>

LineRowA1 == <<"[", " ", "1", ",", "\t", "2", "\t", "]">>

LineRowA2 == <<"[", " ", "3", ",", "\t", "4", "\t", "]">>

LineRowA3 == <<"[", " ", "N", "U", "L", "L", ",", "\t", "6", "\t", "]">>

LineTableB == <<"&", "1", " ", "2", " ", "1", " ", "1", " ", "1">>

LineNamesB == <<"%", " ", "c", " ", "#", " ", "n", "a", "m", "e">>

LineTypesB == <<"%", " ", "i", "n", "t", " ", "#", " ", "t", "y", "p", "e">>

LineLengthB == <<"%", " ", "1", " ", "#", " ", "l", "e", "n", "g", "t", "h">>

LineRowB1 == <<"[", " ", "7", "\t", "]">>

LineShortRow == <<"[", " ", "8", "\t", "]">>

LineBadRow == <<"[", " ", "z", "\t", "]">>

LineUpdate1 == <<"&", "2", " ", "1", " ", "-", "1">>

LineUpdate2 == <<"&", "2", " ", "2", " ", "5">>

LineSchemaLine == <<"&", "3">>

LineTransLine == <<"&", "4", " ", "f">>

LinePrepareLine == <<"&", "5", " ", "3", " ", "1", " ", "1", " ", "1">>

LineBlockLine == <<"&", "6", " ", "2", " ", "1", " ", "1", " ", "1">>

LineRowB2 == <<"[", " ", "9", "\t", "]">>

LineErrorLine == <<"!", "e">>

LineInfoLine == <<"#", "i">>

LineUnknownLine == <<"x">>

LineHeaderNoIdentity == <<"%", " ", "c">>

LineTableD == <<"&", "1", " ", "3", " ", "1", " ", "2", " ", "1">>

LineNamesD == <<"%", " ", "p", ",", "\t", "q", " ", "#", " ", "n", "a", "m", "e">>

LineTypesD == <<"%", " ", "d", "e", "c", "i", "m", "a", "l", ",", "\t", "i", "n", "t", " ", "#", " ", "t", "y", "p", "e">>

LineSizesD == <<"%", " ", "1", "8", " ", "3", ",", "\t", "3", "2", " ", "0", " ", "#", " ", "t", "y", "p", "e", "s", "i", "z", "e", "s">>

LineRowD1 == <<"[", " ", "N", "U", "L", "L", ",", "\t", "4", "\t", "]">>

\* A table block: its lines, and what they say, written out by hand.
BlockA ==
    [text |-> <<LineTableA, LineNamesA, LineTypesA, LineRowA1, LineRowA2,
                LineRowA3>>,
     QueryId |-> 1, RowCount |-> 3, ColumnCount |-> 2,
     names |-> << <<"a">>, <<"b">> >>,
     types |-> << <<"i", "n", "t">>, <<"i", "n", "t">> >>,
     displaySizes |-> <<0, 0>>,
     rows |-> << <<IntValue(1), IntValue(2)>>, <<IntValue(3), IntValue(4)>>,
                 <<NullValue, IntValue(6)>> >>]

BlockB ==
    [text |-> <<LineTableB, LineNamesB, LineTypesB, LineLengthB, LineRowB1>>,
     QueryId |-> 2, RowCount |-> 1, ColumnCount |-> 1,
     names |-> << <<"c">> >>,
     types |-> << <<"i", "n", "t">> >>,
     displaySizes |-> <<1>>,
     rows |-> << <<IntValue(7)>> >>]

\* The responses made of table blocks only.
BlockSequences ==
    { <<BlockA>>, <<BlockB>>, <<BlockA, BlockB>>, <<BlockB, BlockA>>,
      <<BlockB, BlockA, BlockB>> }

RECURSIVE BlockLines(_)
BlockLines(blocks) ==
    IF blocks = <<>> THEN <<>>
    ELSE Head(blocks).text \o BlockLines(Tail(blocks))

\* The text of a response whose lines are ls, each ended by a newline.
Response(ls) == Join(Append(ls, <<>>), "\n")

QueryResponses ==
    { Response(BlockLines(blocks)) : blocks \in BlockSequences }
    \cup
    { Response(<<LineTableA, LineNamesA, LineTypesA, LineRowA1, LineShortRow,
                 LineRowA2>>),
      Response(<<LineTableB, LineNamesB, LineTypesB, LineBadRow>>),
      Response(<<LineUpdate1>>),
      Response(<<LineUpdate1, LineUpdate2>>),
      Response(<<LineSchemaLine>>),
      Response(<<LineTransLine>>),
      Response(BlockB.text \o <<LineTransLine>>),
      Response(<<LineSchemaLine, LineUpdate1>>),
      Response(<<LineInfoLine, LineUpdate2>>),
      LineErrorLine,
      Response(<<LineTableB, LineNamesB, LineTypesB, LineErrorLine>>),
      Response(<<LineUnknownLine>>),
      LineUpdate1,
      Response(<<LinePrepareLine, LineNamesB>>),
      Response(<<LineBlockLine, LineRowB2>>),
      Response(<<>>),
      Response(<<LineRowB1>>),
      Response(<<LineHeaderNoIdentity>>) }

\* Responses that describe columns: a table with a decimal column, with its
\* type line before its typesizes line and with the two the other way
\* round, and tables and an update without a typesizes line.
SchemaResponses ==
    { Response(<<LineTableD, LineNamesD, LineTypesD, LineSizesD, LineRowD1>>),
      Response(<<LineTableD, LineSizesD, LineTypesD>>),
      Response(BlockLines(<<BlockA>>)),
      Response(BlockLines(<<BlockB>>)),
      Response(<<LineUpdate1>>) }

\* StoreResult calls made on one query object.
MaxPasses == 2

\* HasNextResultSet that takes the ResultSet at the cursor for a next one.
HasNextResultSet_OffByOne(cursor, sets) ==
    cursor # 0 - 1 /\ Len(sets) >= cursor + 1

\* HasNextResultSet, lines 328-330.
HasNextResultSet(cursor, sets) ==
    cursor # 0 - 1 /\ Len(sets) > cursor + 1

\* The v2 HasNextResultSet and NextResultSet (query.go, lines 220-226).
HasNextResultSetV2 == FALSE

NextResultSetV2 == "EOF"

\* StoreResult is called with one of the responses (lines 119-130); the v2
\* query is given the same response.
StoreResultOf(responses) ==
    /\ qpc = "idle"
    /\ passes < MaxPasses
    /\ \E response \in responses :
         LET v2 == StoreResultV2(v2ResultSet, response)
         IN  /\ stored' = response
             /\ lines' = Split(response, "\n")
             /\ v2ResultSet' = v2.rs
             /\ v2err' = [kind |-> v2.kind, text |-> v2.text, line |-> v2.line]
    /\ columns' = NoColumns
    /\ addedResultSets' = FALSE
    /\ qpc' = "lines"
    /\ qerr' = [kind |-> "pending", text |-> <<>>]
    /\ passes' = passes + 1
    /\ before' = [resultSets |-> resultSets,
                  currentResultSet |-> currentResultSet]
    /\ lastLine' = <<"none">>
    /\ lineType' = "none"
    /\ advances' = 0 - 1
    /\ UNCHANGED <<resultSets, currentResultSet, nextErr, completed>>
    /\ UNCHANGED frameVars
    /\ UNCHANGED loginVars
    /\ UNCHANGED driverVars

StoreResultCall == StoreResultOf(QueryResponses)

\* StoreResult is called with a response that describes columns.
StoreSchemaCall == StoreResultOf(SchemaResponses)

\* One iteration of StoreResult's loop, or, the lines exhausted, its last
\* return (line 263).
StoreResultLine ==
    /\ qpc = "lines"
    /\ IF lines = <<>>
       THEN /\ qerr' = [kind |-> "unknown state", text |-> stored]
            /\ qpc' = "idle"
            /\ UNCHANGED <<resultSets, currentResultSet, columns,
                           addedResultSets, lines, lastLine, lineType, before,
                           completed, advances>>
       ELSE LET line == Head(lines)
                out == StoreLine("cursor",
                                 [resultSets |-> resultSets,
                                  cursor |-> currentResultSet,
                                  columns |-> columns,
                                  added |-> addedResultSets], line)
                returnsNil == out.ret = "return" /\ out.err = NoError
            IN  /\ resultSets' = out.st.resultSets
                /\ currentResultSet' = out.st.cursor
                /\ columns' = out.st.columns
                /\ addedResultSets' = out.st.added
                /\ lines' = Tail(lines)
                /\ lastLine' = line
                /\ lineType' = getLineType(line)
                /\ before' = [resultSets |-> resultSets,
                              currentResultSet |-> currentResultSet]
                /\ qpc' = CASE out.ret = "continue" -> "lines"
                            [] out.ret = "return" -> "idle"
                            [] OTHER -> "panic"
                /\ qerr' = IF out.ret = "continue" THEN qerr ELSE out.err
                /\ completed' = (\/ completed
                                 \/ /\ returnsNil
                                    /\ Len(out.st.resultSets) > Len(resultSets)
                                 \/ returnsNil /\ addedResultSets)
                /\ advances' = IF returnsNil /\ IsPrompt(line) /\ addedResultSets
                               THEN 0 ELSE advances
    /\ UNCHANGED <<nextErr, v2ResultSet, v2err, stored, passes>>
    /\ UNCHANGED frameVars
    /\ UNCHANGED loginVars
    /\ UNCHANGED driverVars

\* NextResultSet, lines 332-339, after HasNextResultSet; the v2 query is
\* asked the same.
NextResultSet ==
    /\ qpc = "idle"
    /\ LET has == HasNextResultSet(currentResultSet, resultSets)
       IN  /\ currentResultSet' = IF has THEN currentResultSet + 1
                                  ELSE currentResultSet
           /\ nextErr' = [kind |-> IF has THEN "nil" ELSE "EOF",
                          from |-> currentResultSet,
                          to |-> IF has THEN currentResultSet + 1
                                 ELSE currentResultSet,
                          n |-> Len(resultSets),
                          v2has |-> HasNextResultSetV2,
                          v2kind |-> NextResultSetV2]
           /\ advances' = IF has /\ advances >= 0 THEN advances + 1
                          ELSE advances
    /\ UNCHANGED <<resultSets, qpc, lines, columns, addedResultSets, qerr,
                   v2ResultSet, v2err, stored, passes, completed, before,
                   lastLine, lineType>>
    /\ UNCHANGED frameVars
    /\ UNCHANGED loginVars
    /\ UNCHANGED driverVars

QueryInit ==
    /\ FrameIdle(<<>>)
    /\ SessionIdle
    /\ QueryIdle
    /\ DriverIdle

QueryNext ==
    \/ StoreResultCall
    \/ StoreResultLine
    \/ NextResultSet

SpecQuery == QueryInit /\ [][QueryNext]_vars

SchemaNext ==
    \/ StoreSchemaCall
    \/ StoreResultLine
    \/ NextResultSet

SpecSchema == QueryInit /\ [][SchemaNext]_vars


(***************************************************************************)
(* Properties of the query object.                                         *)
(***************************************************************************)
\* C13: while no pass is running, the cursor is -1 unless a StoreResult pass
\* has completed (returned nil) having produced a ResultSet; after the first
\* pass of a query completed so, the cursor is at the first ResultSet. A pass
\* aborted by an error leaves a cursor that was -1 at -1.
C13_CursorUnsetUntilCompleted ==
    qpc = "idle" =>
        /\ currentResultSet # 0 - 1 => completed
        /\ (completed /\ passes = 1 /\ nextErr.kind = "none") =>
               currentResultSet = 0

\* A ResultSet holds what a table block says.
SameAsBlock(rs, b) ==
    /\ rs.QueryId = b.QueryId
    /\ rs.RowCount = b.RowCount
    /\ rs.ColumnCount = b.ColumnCount
    /\ Len(rs.Schema) = Len(b.names)
    /\ \A j \in 1..Len(rs.Schema) :
         /\ rs.Schema[j].ColumnName = b.names[j]
         /\ rs.Schema[j].ColumnType = b.types[j]
         /\ rs.Schema[j].DisplaySize = b.displaySizes[j]
    /\ rs.Rows = b.rows

FieldCount(line) == Len(SplitOn(SubSeq(line, 2, Len(line) - 1), <<",", "\t">>))

\* The line processed last is a tuple line whose number of fields differs
\* from the number of columns of the ResultSet that was current.
OffendingTuple ==
    /\ HasPrefix(lastLine, mapi_MSG_TUPLE)
    /\ Len(lastLine) >= 2
    /\ before.currentResultSet # 0 - 1
    /\ FieldCount(lastLine) #
           Len(before.resultSets[before.currentResultSet + 1].Schema)

\* C15: a tuple line whose number of fields differs from the number of
\* columns of the current ResultSet makes StoreResult return an error; the
\* ResultSets, row buffers included, are what they were before the line, and
\* the line stays the last one processed.
C15_MismatchAddsNoRow ==
    OffendingTuple =>
        /\ qpc = "idle"
        /\ qerr.kind = "length of row doesn't match header"
        /\ resultSets = before.resultSets

\* Witness of C15: a short tuple line after one good row has made StoreResult
\* return the error, the one row kept.
C15_ShortRowRejected ==
    /\ lastLine = LineShortRow
    /\ qpc = "idle"
    /\ qerr.kind = "length of row doesn't match header"
    /\ Len(resultSets) = 1
    /\ Len(resultSets[1].Rows) = 1
    /\ lines # <<>>

\* A ResultSet exists at index i (counted from 0) among n.
Exists(i, n) == 0 <= i /\ i <= n - 1

UpdateLines ==
    { [line |-> LineUpdate1, count |-> 1, id |-> 0 - 1],
      [line |-> LineUpdate2, count |-> 2, id |-> 5] }

\* C17: an update line writes its row count and last id into the ResultSet
\* that is open, and opens one only when none is; every other ResultSet is
\* left as it was. Stored into a fresh query, two consecutive update lines
\* yield one ResultSet with the counts of the last, and a single line
\* '&2 n id' one ResultSet with row count n and last row id id.
C17_UpdateLines ==
    /\ \A u \in UpdateLines :
         (qpc = "lines" /\ lastLine = u.line) =>
             LET old == before.resultSets
                 c == before.currentResultSet
             IN  /\ IF c = 0 - 1
                    THEN Len(resultSets) = Len(old) + 1 /\ currentResultSet = 0
                    ELSE Len(resultSets) = Len(old) /\ currentResultSet = c
                 /\ resultSets[currentResultSet + 1].RowCount = u.count
                 /\ resultSets[currentResultSet + 1].LastRowId = u.id
                 /\ \A i \in 1..Len(old) :
                      i # currentResultSet + 1 => resultSets[i] = old[i]
    /\ (passes = 1 /\ qpc # "lines"
        /\ stored = Response(<<LineUpdate1, LineUpdate2>>)) =>
           /\ qpc = "idle" /\ qerr = NoError
           /\ Len(resultSets) = 1
           /\ resultSets[1].RowCount = 2 /\ resultSets[1].LastRowId = 5
    /\ (passes = 1 /\ qpc # "lines" /\ stored = Response(<<LineUpdate1>>)) =>
           /\ qpc = "idle" /\ qerr = NoError
           /\ Len(resultSets) = 1
           /\ resultSets[1].RowCount = 1 /\ resultSets[1].LastRowId = 0 - 1

\* Witness of C17: two consecutive update lines were stored into a fresh
\* query and left one ResultSet, with the counts of the second line.
C17_LastUpdateSurvives ==
    /\ passes = 1
    /\ qpc = "idle"
    /\ stored = Response(<<LineUpdate1, LineUpdate2>>)
    /\ Len(resultSets) = 1
    /\ resultSets[1].RowCount = 2
    /\ resultSets[1].LastRowId = 5

\* C18: a schema-changed (&3) or transaction-boundary (&4) line starts a new
\* ResultSet with no schema, no rows, row count 0, last row id 0 and offset
\* 0, and leaves every ResultSet created before it as it was; a response of
\* one such line, stored into a fresh query, reports row count 0 and last id
\* 0.
C18_BoundaryStartsNew ==
    /\ (/\ qpc = "lines"
        /\ \/ HasPrefix(lastLine, mapi_MSG_QSCHEMA)
           \/ HasPrefix(lastLine, mapi_MSG_QTRANS)) =>
           LET old == before.resultSets
               new == resultSets[Len(resultSets)]
           IN  /\ Len(resultSets) = Len(old) + 1
               /\ new.Schema = <<>> /\ new.Rows = <<>>
               /\ new.RowCount = 0 /\ new.LastRowId = 0 /\ new.Offset = 0
               /\ \A i \in 1..Len(old) : resultSets[i] = old[i]
    /\ (/\ passes = 1 /\ qpc # "lines"
        /\ stored \in {Response(<<LineSchemaLine>>),
                       Response(<<LineTransLine>>)}) =>
           /\ qpc = "idle" /\ qerr = NoError
           /\ Len(resultSets) = 1
           /\ resultSets[1].RowCount = 0 /\ resultSets[1].LastRowId = 0

\* C19: in the cursor-based StoreResult and in the v2 StoreResult, an error
\* line met by the parse ends it: StoreResult returns at that line, with an
\* error that carries the text after the '!'.
C19_ErrorLineIsReturned ==
    /\ HasPrefix(lastLine, mapi_MSG_ERROR) =>
           /\ qpc = "idle"
           /\ qerr = [kind |-> "database error", text |-> Tail(lastLine)]
    /\ HasPrefix(v2err.line, mapi_MSG_ERROR) =>
           /\ v2err.kind = "database error"
           /\ v2err.text = Tail(v2err.line)

\* A line with none of the prefixes of the protocol's response lines.
Unrecognized(line) ==
    /\ line # <<>>
    /\ line # <<"none">>
    /\ \A prefix \in {mapi_MSG_INFO, mapi_MSG_ERROR, mapi_MSG_QTABLE,
                      mapi_MSG_QUPDATE, mapi_MSG_QSCHEMA, mapi_MSG_QTRANS,
                      mapi_MSG_QPREPARE, mapi_MSG_QBLOCK, mapi_MSG_HEADER,
                      mapi_MSG_TUPLE} : ~HasPrefix(line, prefix)

\* A response none of whose lines is a prompt, an error line or a prepare
\* line.
NoTerminator(response) ==
    \A i \in 1..Len(Split(response, "\n")) :
        LET line == Split(response, "\n")[i]
        IN  /\ line # <<>>
            /\ ~HasPrefix(line, mapi_MSG_ERROR)
            /\ ~HasPrefix(line, mapi_MSG_QPREPARE)

\* C20: the cursor-based StoreResult returns nil only at a prompt line or a
\* prepare line; an unrecognized line makes it return a protocol error at
\* that line; a response exhausted without prompt, error or prepare line
\* makes it return an error.
C20_SuccessOnlyAtPrompt ==
    /\ (passes >= 1 /\ qpc = "idle" /\ qerr = NoError) =>
           lastLine = <<>> \/ HasPrefix(lastLine, mapi_MSG_QPREPARE)
    /\ Unrecognized(lastLine) =>
           /\ qpc = "idle"
           /\ qerr = [kind |-> "protocol error", text |-> lastLine]
    /\ (passes >= 1 /\ qpc = "idle" /\ NoTerminator(stored)) =>
           qerr.kind \notin {"nil", "pending"}

\* Witness of C20: a response of one update line and no prompt was stored,
\* and StoreResult returned the error of its last line.
C20_ExhaustedWithoutPrompt ==
    /\ qpc = "idle"
    /\ stored = LineUpdate1
    /\ lastLine = LineUpdate1
    /\ qerr.kind = "unknown state"


\* The response of the table with decimal columns, its type line before its
\* typesizes line.
DecimalResponse ==
    Response(<<LineTableD, LineNamesD, LineTypesD, LineSizesD, LineRowD1>>)

\* No line of the response is a typesizes header line.
NoTypesizes(response) ==
    \A ls \in {Split(response, "\n")} :
        \A i \in 1..Len(ls) : ls[i] # LineSizesD

\* C26: stored into a fresh query, a table whose type line precedes its
\* typesizes line gives every decimal column the first component of its
\* typesizes entry as precision and the second as scale ("18 3": 18 and 3),
\* and every other column precision 0 and scale 0; a column that is not
\* decimal never has another precision or scale, and a response without a
\* typesizes line leaves precision and scale of every column 0.
C26_DecimalPrecisionScale ==
    /\ (passes = 1 /\ qpc # "lines" /\ stored = DecimalResponse) =>
           /\ qpc = "idle" /\ qerr = NoError
           /\ Len(resultSets) = 1
           /\ Len(resultSets[1].Schema) = 2
           /\ resultSets[1].Schema[1].Precision = 18
           /\ resultSets[1].Schema[1].Scale = 3
           /\ resultSets[1].Schema[2].Precision = 0
           /\ resultSets[1].Schema[2].Scale = 0
    /\ \A i \in 1..Len(resultSets) : \A j \in 1..Len(resultSets[i].Schema) :
           resultSets[i].Schema[j].ColumnType # <<"d", "e", "c", "i", "m", "a", "l">>
               => /\ resultSets[i].Schema[j].Precision = 0
                  /\ resultSets[i].Schema[j].Scale = 0
    /\ (passes = 1 /\ NoTypesizes(stored)) =>
           \A i \in 1..Len(resultSets) :
               \A j \in 1..Len(resultSets[i].Schema) :
                   /\ resultSets[i].Schema[j].Precision = 0
                   /\ resultSets[i].Schema[j].Scale = 0

\* Witness of C26: the table with decimal columns was stored, and its first
\* column has precision 18 and scale 3.
C26_EighteenThree ==
    /\ passes = 1
    /\ qpc = "idle"
    /\ stored = DecimalResponse
    /\ resultSets[1].Schema[1].ColumnType = <<"d", "e", "c", "i", "m", "a", "l">>
    /\ resultSets[1].Schema[1].Precision = 18
    /\ resultSets[1].Schema[1].Scale = 3

\* C27: a ResultSet that an update, schema-changed, transaction-boundary or
\* prepare line has opened has query id -1.
C27_NoServerCursorNoQueryId ==
    (/\ qpc \in {"lines", "idle"}
     /\ \E prefix \in {mapi_MSG_QUPDATE, mapi_MSG_QSCHEMA, mapi_MSG_QTRANS,
                       mapi_MSG_QPREPARE} : HasPrefix(lastLine, prefix)
     /\ Len(resultSets) = Len(before.resultSets) + 1) =>
        resultSets[Len(resultSets)].QueryId = 0 - 1

\* The rows of a sequence of table blocks, one block after the other.
RECURSIVE AllRows(_)
AllRows(blocks) ==
    IF blocks = <<>> THEN <<>>
    ELSE Head(blocks).rows \o AllRows(Tail(blocks))

\* C28: the v2 query answers HasNextResultSet() with false and
\* NextResultSet() with the end of the sequence whatever it has stored; a
\* response of several table blocks is applied, line after line, to its one
\* ResultSet, which ends with the metadata of the last block and the rows of
\* all of them.
C28_V2OneResultSet ==
    /\ nextErr.kind # "none" =>
           nextErr.v2has = FALSE /\ nextErr.v2kind = "EOF"
    /\ \A blocks \in BlockSequences :
           (passes = 1 /\ stored = Response(BlockLines(blocks))) =>
               LET final == blocks[Len(blocks)]
               IN  /\ v2err.kind = "nil"
                   /\ v2err.line = <<>>
                   /\ v2ResultSet.QueryId = final.QueryId
                   /\ v2ResultSet.RowCount = final.RowCount
                   /\ v2ResultSet.ColumnCount = final.ColumnCount
                   /\ Len(v2ResultSet.Schema) = Len(final.names)
                   /\ v2ResultSet.Rows = AllRows(blocks)

\* Witness of C28: two table blocks were stored into the v2 query, which
\* holds the rows of both and has answered NextResultSet().
C28_TwoBlocksOneResultSet ==
    /\ passes = 1
    /\ stored = Response(BlockLines(<<BlockA, BlockB>>))
    /\ Len(v2ResultSet.Rows) = 4
    /\ v2ResultSet.QueryId = 2
    /\ nextErr.v2kind = "EOF"


\* C24: when the context is done while the round trip of the fetch is still
\* in progress, mapiDo can return to its caller at once: its return does not
\* wait for the result of the background task.
C24_CancelEndsTheWait ==
    (rowsPc = "select" /\ ctxDone) => ENABLED MapiDoSelect


(***************************************************************************)
(* Part IV. Rows over a query, and the statements built from a query.      *)
(*                                                                         *)
(* The session is taken connected and its exchange (Part II) as one step:  *)
(* a command given to it is answered before the call returns. The server   *)
(* holds a table of one int column whose row i (from 0) holds the value i; *)
(* it answers a fetch with the rows asked for, with one row fewer, or with *)
(* an error.                                                               *)
(***************************************************************************)
\* The number of rows of a window (resultset.go, line 157, where it is 100).
MAPI_ARRAY_SIZE == 4

RECURSIVE NatText(_)
NatText(n) ==
    IF n < 10 THEN <<Digits[n + 1]>>
    ELSE NatText(n \div 10) \o <<Digits[(n % 10) + 1]>>

\* The verb %d of fmt.Sprintf.
Itoa(n) == IF n < 0 THEN <<"-">> \o NatText(0 - n) ELSE NatText(n)

\* MapiConn.fetchNext (resultset.go, lines 230-233): the command.
FetchCommand(queryId, off, amount) ==
    <<"X", "e", "x", "p", "o", "r", "t", " ">> \o Itoa(queryId) \o <<" ">>
        \o Itoa(off) \o <<" ">> \o Itoa(amount)

\* The server's handle of the query, and its table.
ServerQueryId == 7

ServerRow(i) == <<IntValue(i)>>

\* The value of the first row of the table with the handle id: the tables of
\* the server hold different rows.
ServerBase(id) == 100 * (id - ServerQueryId)

ServerRowLine(i) == <<"[", " ">> \o Itoa(i) \o <<"\t", "]">>

RowLines(from, n) == [k \in 1..n |-> ServerRowLine(from + k - 1)]

\* The numbers of rows of the server's table: none, one, a window, a window
\* and a row, two windows and a half.
RowCounts ==
    {0, 1, MAPI_ARRAY_SIZE, MAPI_ARRAY_SIZE + 1,
     2 * MAPI_ARRAY_SIZE + MAPI_ARRAY_SIZE \div 2}

\* The response to the query: the table header, the column headers and the
\* first window of rows.
FirstResponse(n) ==
    Response(<< <<"&", "1", " ">> \o Itoa(ServerQueryId) \o <<" ">> \o Itoa(n)
                    \o <<" ", "1", " ">> \o Itoa(Min(n, MAPI_ARRAY_SIZE)),
                LineNamesB, LineTypesB >>
             \o RowLines(0, Min(n, MAPI_ARRAY_SIZE)))

\* The response to two statements: a table of two rows, and a table of three
\* rows under the next handle, each with its column headers and its rows.
TableLines(id, n) ==
    << <<"&", "1", " ">> \o Itoa(id) \o <<" ">> \o Itoa(n)
           \o <<" ", "1", " ">> \o Itoa(Min(n, MAPI_ARRAY_SIZE)),
       LineNamesB, LineTypesB >>
    \o RowLines(ServerBase(id), Min(n, MAPI_ARRAY_SIZE))

TwoTableResponse ==
    Response(TableLines(ServerQueryId, 2) \o TableLines(ServerQueryId + 1, 3))

\* A tuple line of two fields, for a table of one column.
ServerBadRowLine(i) ==
    <<"[", " ">> \o Itoa(i) \o <<",", "\t">> \o Itoa(i) \o <<"\t", "]">>

\* What the server answers a fetch with: the rows asked for, one row less,
\* an error line, or the rows with a tuple of two fields after the first.
FetchOutcomes == {"rows", "short", "error", "mismatch"}

\* The response to 'Xexport id offset amount' of a server whose table has n
\* rows: a block line and the rows, or an error line.
ExportResponse(cmd, n, outcome) ==
    LET t == Split(cmd, " ")
        off == Atoi(t[3])
        amount == Atoi(t[4])
        have == IF Min(amount, n - off) < 0 THEN 0 ELSE Min(amount, n - off)
        given == IF outcome = "short" /\ have > 0 THEN have - 1 ELSE have
        first == ServerBase(Atoi(t[2])) + off
    IN  IF outcome = "error" THEN Response(<<LineErrorLine>>)
        ELSE IF outcome = "mismatch"
        THEN Response(<< <<"&", "6", " ">> \o t[2] \o <<" ", "1", " ">>
                             \o Itoa(given) \o <<" ">> \o Itoa(off) >>
                      \o RowLines(first, Min(given, 1))
                      \o <<ServerBadRowLine(first + 1)>>
                      \o RowLines(first + 1, given - Min(given, 1)))
        ELSE Response(<< <<"&", "6", " ">> \o t[2] \o <<" ", "1", " ">>
                             \o Itoa(given) \o <<" ">> \o Itoa(off) >>
                      \o RowLines(first, given))

\* A value computed once and then used under a name, as a local variable of
\* the code is: F of the value v.
With(v, F(_)) == CHOOSE y \in {F(x) : x \in {v}} : TRUE

\* The cursor-based StoreResult (lines 119-264) run over a whole response.
RECURSIVE StoreLines(_, _)
StoreLines(st, ls) ==
    IF ls = <<>> THEN ReturnError(st, "unknown state", <<>>)
    ELSE With(StoreLine("cursor", st, Head(ls)),
              LAMBDA out : IF out.ret = "continue"
                           THEN StoreLines(out.st, Tail(ls))
                           ELSE out)

StoreResult(sets, cursor, response) ==
    StoreLines([resultSets |-> sets, cursor |-> cursor, columns |-> NoColumns,
                added |-> FALSE],
               Split(response, "\n"))

\* convertRows: the rows as rows of driver values, columnCount values each.
ConvertRows(rs, columnCount) ==
    [i \in 1..Len(rs) |->
        [j \in 1..columnCount |->
            IF j <= Len(rs[i]) THEN rs[i][j] ELSE NullValue]]

\* The end of the rows taken to lie one row further.
AtEnd_Past(n, rowCount) == n > rowCount

\* Lines 637 and 693: the row asked for is not below the row count.
AtEnd(n, rowCount) == n >= rowCount

\* A fetch that waits until the row asked for lies past the window's end.
NeedsFetch_Late(n, off, buffered) == n > off + buffered

\* Line 641: the row asked for lies at or beyond the end of the window.
NeedsFetch(n, off, buffered) == n >= off + buffered

\* A fetch that always asks for a whole window.
FetchAmount_Window(rowCount, n, off) == MAPI_ARRAY_SIZE

\* Lines 698-699.
FetchAmount(rowCount, n, off) == Min(rowCount, n + MAPI_ARRAY_SIZE) - off

\* A call of Next as it starts: nothing returned, nothing changed yet.
NextStarts ==
    [kind |-> "pending", rowNum |-> rowNum, offset |-> offset, rows |-> rows,
     sets |-> resultSets, cursor |-> currentResultSet, cmds |-> <<>>,
     dest |-> <<>>, stored |-> "none"]

\* Rows.Next, lines 648-657: the buffered row at rowNum - offset is copied
\* into dest. An index outside the buffer panics.
ReadRow(c) ==
    LET i == c.rowNum - c.offset
    IN  IF i < 0 \/ i >= Len(c.rows) THEN [c EXCEPT !.kind = "panic"]
        ELSE [c EXCEPT !.kind = "nil", !.dest = <<c.rows[i + 1]>>,
                       !.rowNum = @ + 1]

\* Rows.fetchNext, lines 692-711, with mapiDo (670-690), query.FetchNext
\* (part_004, 266-268) and cmd: the offset is moved, the command sent, and
\* its response stored and converted. What StoreResult returns is dropped
\* (line 706).
FetchNext(c, outcome) ==
    LET rs == c.sets[c.cursor + 1]
    IN  IF AtEnd(c.rowNum, rs.RowCount) THEN [c EXCEPT !.kind = "EOF"]
        ELSE
        LET off == c.offset + Len(c.rows)
            amount == FetchAmount(rs.RowCount, c.rowNum, off)
            cmd == FetchCommand(rs.QueryId, off, amount)
            sending == [c EXCEPT !.offset = off, !.cmds = <<cmd>>]
        IN  With(CmdOutcome(ExportResponse(cmd, rs.RowCount, outcome)),
                 LAMBDA out :
                   IF out.result # "nil"
                   THEN [sending EXCEPT !.kind = out.result]
                   ELSE With(StoreResult(c.sets, c.cursor, out.reply),
                             LAMBDA pass :
                               IF pass.ret = "panic" \/ ~HasResult(pass.st)
                               THEN [sending EXCEPT !.kind = "panic"]
                               ELSE [sending EXCEPT
                                       !.kind = "nil",
                                       !.sets = pass.st.resultSets,
                                       !.cursor = pass.st.cursor,
                                       !.rows =
                                         ConvertRows(Result(pass.st).Rows,
                                                     Result(pass.st).ColumnCount),
                                       !.stored = pass.err.kind]))

\* Rows.Next, lines 629-658.
Next(outcome) ==
    LET c == NextStarts
    IN  IF ~active THEN [c EXCEPT !.kind = "rows closed"]
        ELSE IF currentResultSet = 0 - 1 THEN [c EXCEPT !.kind = "panic"]
        ELSE IF resultSets[currentResultSet + 1].QueryId = 0 - 1
        THEN [c EXCEPT !.kind = "no resultset"]
        ELSE IF AtEnd(rowNum, resultSets[currentResultSet + 1].RowCount)
        THEN [c EXCEPT !.kind = "EOF"]
        ELSE IF NeedsFetch(rowNum, offset, Len(rows))
        THEN With(FetchNext(c, outcome),
                  LAMBDA f : IF f.kind # "nil" THEN f ELSE ReadRow(f))
        ELSE ReadRow(c)

\* A call of Rows.Next.
RowsNext ==
    /\ rpc = "ready"
    /\ \E outcome \in FetchOutcomes :
         \E n \in {Next(outcome)} :
             /\ rowNum' = n.rowNum
             /\ offset' = n.offset
             /\ rows' = n.rows
             /\ resultSets' = n.sets
             /\ currentResultSet' = n.cursor
             /\ sent' = sent \o n.cmds
             /\ returned' = returned \o n.dest
             /\ rpc' = IF n.kind = "panic" THEN "panic" ELSE "ready"
             /\ honest' = (honest /\ (n.cmds = <<>> \/ outcome = "rows"))
             /\ lastNext' =
                  [kind |-> n.kind,
                   wasActive |-> active,
                   rowNum |-> rowNum,
                   offset |-> offset,
                   buffered |-> Len(rows),
                   rows |-> rows,
                   sentBefore |-> Len(sent),
                   sets |-> Len(resultSets),
                   cursor |-> currentResultSet,
                   outcome |-> IF n.cmds = <<>> THEN "none" ELSE outcome,
                   stored |-> n.stored]
    /\ UNCHANGED <<active, prepared, execCall>>
    /\ UNCHANGED queryPassVars
    /\ UNCHANGED frameVars
    /\ UNCHANGED loginVars

\* Rows.Close, lines 620-623.
RowsClose ==
    /\ rpc = "ready"
    /\ active
    /\ active' = FALSE
    /\ UNCHANGED <<rowNum, offset, rows, returned, lastNext, honest>>
    /\ UNCHANGED <<rpc, sent, prepared, execCall>>
    /\ UNCHANGED queryVars
    /\ UNCHANGED frameVars
    /\ UNCHANGED loginVars

\* Rows.NextResultSet, lines 805-807, after Rows.HasNextResultSet (801-803):
\* the two calls are handed on to the query (part_004, lines 328-339), and
\* no field of the Rows is assigned. The rows returned and the last Next call
\* are those of the current ResultSet.
RowsNextResultSet ==
    /\ rpc = "ready"
    /\ LET has == HasNextResultSet(currentResultSet, resultSets)
       IN  /\ currentResultSet' = IF has THEN currentResultSet + 1
                                  ELSE currentResultSet
           /\ nextErr' = [kind |-> IF has THEN "nil" ELSE "EOF",
                          from |-> currentResultSet,
                          to |-> IF has THEN currentResultSet + 1
                                 ELSE currentResultSet,
                          n |-> Len(resultSets),
                          v2has |-> HasNextResultSetV2,
                          v2kind |-> NextResultSetV2]
           /\ returned' = IF has THEN <<>> ELSE returned
           /\ lastNext' = IF has THEN [kind |-> "none"] ELSE lastNext
    /\ UNCHANGED <<active, rowNum, offset, rows, honest>>
    /\ UNCHANGED <<rpc, sent, prepared, execCall>>
    /\ UNCHANGED <<resultSets, qpc, lines, columns, addedResultSets, qerr,
                   v2ResultSet, v2err, stored, passes, completed, before,
                   lastLine, lineType, advances>>
    /\ UNCHANGED frameVars
    /\ UNCHANGED loginVars

\* A query has stored the first response, of a table of n rows or of two
\* tables, and Rows were made of it (newRows, lines 611-618); the Rows hold
\* the rows of the first window of the current ResultSet, at offset 0.
\* newRows itself leaves the buffer unset: the statement's code, which fills
\* it, is not among the sources, and the initial window is the one the
\* specification describes ("an initial buffered window ... starting at
\* offset 0").
RowsInit ==
    /\ FrameIdle(<<>>)
    /\ SessionIdle
    /\ QueryPassIdle
    /\ \E response \in {FirstResponse(n) : n \in RowCounts}
                         \cup {TwoTableResponse} :
         \E pass \in {StoreResult(<<>>, 0 - 1, response)} :
             /\ resultSets = pass.st.resultSets
             /\ currentResultSet = pass.st.cursor
             /\ rows = ConvertRows(Result(pass.st).Rows,
                                   Result(pass.st).ColumnCount)
    /\ active = TRUE
    /\ rowNum = 0
    /\ offset = 0
    /\ rpc = "ready"
    /\ sent = <<>>
    /\ returned = <<>>
    /\ lastNext = [kind |-> "none"]
    /\ honest = TRUE
    /\ prepared = 0 - 1
    /\ execCall = [op |-> "none"]

RowsSpecNext ==
    \/ RowsNext
    \/ RowsClose
    \/ RowsNextResultSet

SpecRows == RowsInit /\ [][RowsSpecNext]_vars


(***************************************************************************)
(* Properties of Rows.                                                     *)
(***************************************************************************)
\* The row count of the ResultSet the Rows are over.
TotalRows == resultSets[currentResultSet + 1].RowCount

\* Rows.NextResultSet has moved the Rows on to a next ResultSet.
Advanced == currentResultSet > 0

\* The value of row i of the table the Rows are over.
TableValue(i) ==
    IntValue(ServerBase(resultSets[currentResultSet + 1].QueryId) + i)

\* The end of the window that was buffered when the last Next call started.
WindowEnd == lastNext.offset + lastNext.buffered

\* The last Next call, on active Rows, asked for a row at or beyond the end
\* of the buffered window and below the row count.
BeyondWindow ==
    /\ lastNext.kind # "none"
    /\ lastNext.wasActive
    /\ lastNext.rowNum >= WindowEnd
    /\ lastNext.rowNum < TotalRows

\* The fields of the k-th command sent: its verb, and its numbers.
SentVerb(k) == Split(sent[k], " ")[1]

SentNumber(k, i) == Atoi(Split(sent[k], " ")[i + 1])

\* C21: a Next call that needs a row at or beyond the end of the buffered
\* window and below the row count sends exactly one command, 'Xexport',
\* with the query id, the end of the buffered window as offset and
\* min(window size, row count - offset) as amount; another Next call sends
\* none. For a table of two windows and a half the fetches are (window,
\* window) and (2 windows, half a window).
C21_OneFetchPerWindow ==
    /\ lastNext.kind # "none" =>
           IF BeyondWindow
           THEN /\ Len(sent) = lastNext.sentBefore + 1
                /\ Len(Split(sent[Len(sent)], " ")) = 4
                /\ SentVerb(Len(sent)) = <<"X", "e", "x", "p", "o", "r", "t">>
                /\ SentNumber(Len(sent), 1) =
                       resultSets[currentResultSet + 1].QueryId
                /\ SentNumber(Len(sent), 2) = WindowEnd
                /\ SentNumber(Len(sent), 3) =
                       Min(MAPI_ARRAY_SIZE, TotalRows - WindowEnd)
           ELSE Len(sent) = lastNext.sentBefore
    /\ (/\ honest /\ lastNext.kind = "EOF" /\ lastNext.wasActive
        /\ TotalRows = 2 * MAPI_ARRAY_SIZE + MAPI_ARRAY_SIZE \div 2) =>
           /\ Len(sent) = 2
           /\ SentNumber(1, 2) = MAPI_ARRAY_SIZE
           /\ SentNumber(1, 3) = MAPI_ARRAY_SIZE
           /\ SentNumber(2, 2) = 2 * MAPI_ARRAY_SIZE
           /\ SentNumber(2, 3) = MAPI_ARRAY_SIZE \div 2

\* Witness of C21: over a table of two windows and a half, the Next call for
\* the first row of the last half window has made the second fetch.
C21_SecondFetchOfHalfWindow ==
    /\ honest
    /\ TotalRows = 2 * MAPI_ARRAY_SIZE + MAPI_ARRAY_SIZE \div 2
    /\ lastNext.kind = "nil"
    /\ lastNext.rowNum = 2 * MAPI_ARRAY_SIZE
    /\ Len(sent) = 2
    /\ SentNumber(2, 2) = 2 * MAPI_ARRAY_SIZE
    /\ SentNumber(2, 3) = MAPI_ARRAY_SIZE \div 2

\* C22: a Next call on active Rows whose row position is at or beyond the
\* row count returns the end of the data, sends no command and leaves row
\* position, offset and buffered rows as they were; so does every such call.
C22_EndOfDataChangesNothing ==
    (/\ lastNext.kind # "none"
     /\ lastNext.wasActive
     /\ lastNext.rowNum >= TotalRows) =>
        /\ lastNext.kind = "EOF"
        /\ Len(sent) = lastNext.sentBefore
        /\ rowNum = lastNext.rowNum
        /\ offset = lastNext.offset
        /\ rows = lastNext.rows
        /\ rpc = "ready"

\* Witness of C22: all rows of a table of two windows and a half have been
\* read, and the Next call after the last row has returned the end of the
\* data.
C22_EndAfterLastRow ==
    /\ active
    /\ TotalRows = 2 * MAPI_ARRAY_SIZE + MAPI_ARRAY_SIZE \div 2
    /\ rowNum = TotalRows
    /\ lastNext.kind = "EOF"
    /\ lastNext.rowNum = TotalRows
    /\ Len(sent) = 2

\* C23: on Rows made over their ResultSet, as long as the server has
\* answered every fetch with the rows asked for, the rows Next has returned are rows 0, 1, ... of the table, in order
\* and without gap or repetition, no call has panicked or failed, the end of
\* the data is returned only after the last row, and the k-th fetch starts
\* where the k-th window ends.
C23_EveryRowOnceInOrder ==
    (honest /\ ~Advanced) =>
        /\ rpc = "ready"
        /\ lastNext.kind \in {"none", "nil", "EOF", "rows closed"}
        /\ Len(returned) = rowNum
        /\ \A i \in 1..Len(returned) : returned[i] = <<TableValue(i - 1)>>
        /\ (lastNext.kind = "EOF" /\ lastNext.wasActive) => rowNum = TotalRows
        /\ \A k \in 1..Len(sent) :
             /\ SentNumber(k, 2) = k * MAPI_ARRAY_SIZE
             /\ SentNumber(k, 3) =
                    Min(MAPI_ARRAY_SIZE, TotalRows - k * MAPI_ARRAY_SIZE)

\* Witness of C23: a table of two windows and a half has been read to the
\* end of the data, every fetch answered with the rows asked for.
C23_WholeTableRead ==
    /\ honest
    /\ TotalRows = 2 * MAPI_ARRAY_SIZE + MAPI_ARRAY_SIZE \div 2
    /\ lastNext.kind = "EOF"
    /\ lastNext.wasActive
    /\ Len(returned) = TotalRows
    /\ returned[TotalRows] = <<IntValue(TotalRows - 1)>>

\* C30: after a fetch whose response, a block line, the rows asked for and a
\* prompt, has been stored, the current ResultSet's rows are the fetched
\* rows in order, its recorded offset is the offset of the fetch, and no
\* ResultSet was added nor the cursor moved.
C30_FetchRefillsWindow ==
    (lastNext.kind = "nil" /\ lastNext.outcome = "rows") =>
        LET rs == resultSets[currentResultSet + 1]
            amount == Min(MAPI_ARRAY_SIZE, TotalRows - WindowEnd)
        IN  /\ rs.Rows = [k \in 1..amount |-> <<TableValue(WindowEnd + k - 1)>>]
            /\ rs.Offset = WindowEnd
            /\ Len(resultSets) = lastNext.sets
            /\ currentResultSet = lastNext.cursor

\* The part of C30 about rows, ResultSets and cursor, without the recorded
\* offset.
FetchedRowsReplaceWindow ==
    (lastNext.kind = "nil" /\ lastNext.outcome = "rows") =>
        LET rs == resultSets[currentResultSet + 1]
            amount == Min(MAPI_ARRAY_SIZE, TotalRows - WindowEnd)
        IN  /\ rs.Rows = [k \in 1..amount |-> <<TableValue(WindowEnd + k - 1)>>]
            /\ lastNext.stored = "nil"
            /\ Len(resultSets) = lastNext.sets
            /\ currentResultSet = lastNext.cursor


(***************************************************************************)
(* Part IV-b: prepared statements and statements with named parameters     *)
(* (part_004, lines 270-322; resultset.go, lines 83-100, 225-228).         *)
(***************************************************************************)
\* Commands one query object sends.
MaxCommands == 2

\* The text of the query (sqlQuery).
SqlQuery == <<"q">>

\* Parameter values: an integer, a string, null, and a value of a kind the
\* encoder does not support.
ArgInt(n) == [kind |-> "int", n |-> n, s |-> <<>>]

ArgString(s) == [kind |-> "string", n |-> 0, s |-> s]

ArgNull == [kind |-> "null", n |-> 0, s |-> <<>>]

ArgUnsupported == [kind |-> "unsupported", n |-> 0, s |-> <<>>]

\* A string with its quotes and backslashes escaped.
RECURSIVE Escaped(_)
Escaped(s) ==
    IF s = <<>> THEN <<>>
    ELSE (IF Head(s) \in {"'", "\\"} THEN <<"\\", Head(s)>> ELSE <<Head(s)>>)
         \o Escaped(Tail(s))

\* ConvertToMonet: the wire literal of a parameter value, or an encoding
\* error.
ConvertToMonet(v) ==
    CASE v.kind = "int" -> [str |-> Itoa(v.n), err |-> "nil"]
      [] v.kind = "string" ->
             [str |-> <<"'">> \o Escaped(v.s) \o <<"'">>, err |-> "nil"]
      [] v.kind = "null" -> [str |-> <<"N", "U", "L", "L">>, err |-> "nil"]
      [] OTHER -> [str |-> <<>>, err |-> "encoding"]

\* The loop of CreateExecString (resultset.go, lines 87-96) from argument i
\* on, b being the buffer so far. On a conversion error it returns "" and a
\* nil error (line 90).
RECURSIVE ExecArgs(_, _, _)
ExecArgs(args, i, b) ==
    IF i > Len(args) THEN [str |-> b \o <<")">>, err |-> "nil"]
    ELSE With(ConvertToMonet(args[i]),
              LAMBDA c :
                IF c.err # "nil" THEN [str |-> <<>>, err |-> "nil"]
                ELSE ExecArgs(args, i + 1,
                              b \o (IF i > 1 THEN <<",", " ">> ELSE <<>>)
                                \o c.str))

\* ResultSet.CreateExecString, resultset.go lines 83-100.
CreateExecString(execId, args) ==
    ExecArgs(args, 1, <<"E", "X", "E", "C", " ">> \o Itoa(execId)
                          \o <<" ", "(">>)

\* The loop of CreateNamedString (part_004, lines 300-309). On a conversion
\* error it returns "" and a nil error (line 303).
RECURSIVE NamedArgs(_, _, _, _)
NamedArgs(names, args, i, b) ==
    IF i > Len(args) THEN [str |-> b \o <<")">>, err |-> "nil"]
    ELSE With(ConvertToMonet(args[i]),
              LAMBDA c :
                IF c.err # "nil" THEN [str |-> <<>>, err |-> "nil"]
                ELSE NamedArgs(names, args, i + 1,
                               b \o (IF i > 1 THEN <<",", " ">> ELSE <<>>)
                                 \o <<" ">> \o names[i] \o <<" ">>
                                 \o c.str))

\* query.CreateNamedString, part_004 lines 295-314.
CreateNamedString(sqlQuery, names, args) ==
    NamedArgs(names, args, 1, sqlQuery \o <<" ", ":", " ", "(", " ">>)

\* MapiConn.Execute, resultset.go lines 225-228: the command text.
ExecuteCommand(text) == <<"s">> \o text \o <<";">>

\* The argument lists the statements are executed with.
ArgLists ==
    { <<>>,
      <<ArgInt(5)>>,
      <<ArgInt(5), ArgNull>>,
      <<ArgNull, ArgInt(5)>>,
      <<ArgString(<<"a", "'", "b">>), ArgInt(0 - 3)>>,
      <<ArgUnsupported>>,
      <<ArgInt(5), ArgUnsupported>> }

\* The names of the parameters, by position.
ParameterNames(n) == SubSeq(<< <<"x">>, <<"y">> >>, 1, n)

\* A second prepare line, with another execution id.
LinePrepare12 == <<"&", "5", " ", "1", "2", " ", "2", " ", "1", " ", "2">>

\* The responses of the server to PREPARE: a prepare line followed by the
\* description of the statement, here with lines that would change a
\* ResultSet if they were read; or an error line.
PrepareResponses ==
    { Response(<<LinePrepareLine, LineTableB, LineNamesB, LineTypesB,
                 LineRowB1>>),
      Response(<<LinePrepare12, LineNamesB, LineRowB1, LineUpdate2>>),
      Response(<<LineErrorLine>>) }

\* The result of the round trip of a command: the response read, or an
\* error reading it.
RoundTrips == {"nil", "io"}

\* query.PrepareQuery, lines 277-285: 'PREPARE <query>' is executed and the
\* response stored.
PrepareQuery ==
    /\ rpc = "ready"
    /\ Len(sent) < MaxCommands
    /\ sent' = Append(sent, ExecuteCommand(<<"P", "R", "E", "P", "A", "R", "E",
                                             " ">> \o SqlQuery))
    /\ \E trip \in RoundTrips :
         IF trip # "nil"
         THEN /\ execCall' = [op |-> "prepare", err |-> trip,
                              stored |-> FALSE, id |-> 0 - 1,
                              setsBefore |-> resultSets,
                              cursor |-> currentResultSet,
                              args |-> <<>>, sentBefore |-> Len(sent)]
              /\ UNCHANGED <<resultSets, currentResultSet, prepared, rpc>>
         ELSE \E response \in PrepareResponses :
              \E pass \in {StoreResult(resultSets, currentResultSet,
                                       response)} :
              \E isPrepare \in {getLineType(Split(response, "\n")[1])
                                    = "QPREPARE"} :
              \E id \in {IF isPrepare
                         THEN Atoi(Fields(Split(response, "\n")[1])[1])
                         ELSE 0 - 1} :
                /\ resultSets' = pass.st.resultSets
                /\ currentResultSet' = pass.st.cursor
                /\ rpc' = IF pass.ret = "panic" THEN "panic" ELSE "ready"
                /\ prepared' = IF isPrepare THEN id ELSE prepared
                /\ execCall' = [op |-> "prepare", err |-> pass.err.kind,
                                stored |-> isPrepare, id |-> id,
                                setsBefore |-> resultSets,
                                cursor |-> currentResultSet,
                                args |-> <<>>, sentBefore |-> Len(sent)]
    /\ UNCHANGED queryPassVars
    /\ UNCHANGED rowsVars
    /\ UNCHANGED frameVars
    /\ UNCHANGED loginVars

\* query.ExecutePreparedQuery, lines 287-293: the statement is built from
\* the ResultSet at the cursor and executed. Without a ResultSet the index
\* is -1 and the call panics.
ExecutePreparedQuery ==
    /\ rpc = "ready"
    /\ Len(sent) < MaxCommands
    /\ \E args \in ArgLists :
         IF currentResultSet = 0 - 1
         THEN /\ rpc' = "panic"
              /\ sent' = sent
              /\ execCall' = [op |-> "exec", err |-> "panic",
                              stored |-> FALSE, id |-> prepared,
                              setsBefore |-> resultSets,
                              cursor |-> currentResultSet,
                              args |-> args, sentBefore |-> Len(sent)]
         ELSE \E c \in {CreateExecString(
                            resultSets[currentResultSet + 1].ExecId, args)} :
              \E trip \in RoundTrips :
                /\ rpc' = rpc
                /\ sent' = IF c.err # "nil" THEN sent
                           ELSE Append(sent, ExecuteCommand(c.str))
                /\ execCall' = [op |-> "exec",
                                err |-> IF c.err # "nil" THEN c.err
                                        ELSE trip,
                                stored |-> FALSE, id |-> prepared,
                                setsBefore |-> resultSets,
                                cursor |-> currentResultSet,
                                args |-> args, sentBefore |-> Len(sent)]
    /\ UNCHANGED <<prepared>>
    /\ UNCHANGED queryVars
    /\ UNCHANGED rowsVars
    /\ UNCHANGED frameVars
    /\ UNCHANGED loginVars

\* query.ExecuteNamedQuery, lines 316-322: the statement is built from the
\* query text, the names and the arguments, and executed.
ExecuteNamedQuery ==
    /\ rpc = "ready"
    /\ Len(sent) < MaxCommands
    /\ \E args \in ArgLists :
         \E c \in {CreateNamedString(SqlQuery, ParameterNames(Len(args)),
                                     args)} :
         \E trip \in RoundTrips :
           /\ sent' = IF c.err # "nil" THEN sent
                      ELSE Append(sent, ExecuteCommand(c.str))
           /\ execCall' = [op |-> "named",
                           err |-> IF c.err # "nil" THEN c.err ELSE trip,
                           stored |-> FALSE, id |-> prepared,
                           setsBefore |-> resultSets,
                           cursor |-> currentResultSet,
                           args |-> args, sentBefore |-> Len(sent)]
    /\ UNCHANGED <<prepared, rpc>>
    /\ UNCHANGED queryVars
    /\ UNCHANGED rowsVars
    /\ UNCHANGED frameVars
    /\ UNCHANGED loginVars

\* A query as NewQuery makes it, or one that has stored a response of two
\* tables and stands at the first.
ExecInit ==
    /\ FrameIdle(<<>>)
    /\ SessionIdle
    /\ QueryPassIdle
    /\ \E held \in {<<>>, Response(BlockLines(<<BlockA, BlockB>>))} :
         IF held = <<>>
         THEN resultSets = <<>> /\ currentResultSet = 0 - 1
         ELSE \E pass \in {StoreResult(<<>>, 0 - 1, held)} :
                /\ resultSets = pass.st.resultSets
                /\ currentResultSet = pass.st.cursor
    /\ active = FALSE
    /\ rowNum = 0
    /\ offset = 0
    /\ rows = <<>>
    /\ rpc = "ready"
    /\ sent = <<>>
    /\ returned = <<>>
    /\ lastNext = [kind |-> "none"]
    /\ honest = TRUE
    /\ prepared = 0 - 1
    /\ execCall = [op |-> "none"]

ExecSpecNext ==
    \/ PrepareQuery
    \/ ExecutePreparedQuery
    \/ ExecuteNamedQuery

SpecExec == ExecInit /\ [][ExecSpecNext]_vars

(***************************************************************************)
(* Properties of prepared and named statements.                            *)
(***************************************************************************)
\* The last call built a statement from arguments of which one cannot be
\* converted.
UnconvertibleArgument ==
    /\ execCall.op \in {"exec", "named"}
    /\ execCall.err # "panic"
    /\ \E i \in 1..Len(execCall.args) : execCall.args[i].kind = "unsupported"

\* C25: when an argument cannot be converted to its wire literal,
\* ExecutePreparedQuery and ExecuteNamedQuery return the encoding error and
\* send no command.
C25_UnconvertibleSendsNothing ==
    UnconvertibleArgument =>
        /\ execCall.err = "encoding"
        /\ Len(sent) = execCall.sentBefore

\* The arguments of the last call as they are to appear in the statement.
ExpectedArguments ==
    CASE execCall.args = <<>> -> <<>>
      [] execCall.args = <<ArgInt(5)>> -> <<"5">>
      [] execCall.args = <<ArgInt(5), ArgNull>> ->
             <<"5", ",", " ", "N", "U", "L", "L">>
      [] execCall.args = <<ArgNull, ArgInt(5)>> ->
             <<"N", "U", "L", "L", ",", " ", "5">>
      [] execCall.args = <<ArgString(<<"a", "'", "b">>), ArgInt(0 - 3)>> ->
             <<"'", "a", "\\", "'", "b", "'", ",", " ", "-", "3">>

\* The last call was ExecutePreparedQuery on a query that has stored a
\* prepare line, with arguments that can all be converted.
ExecutedPrepared ==
    /\ execCall.op = "exec"
    /\ execCall.err # "panic"
    /\ execCall.id # 0 - 1
    /\ ~UnconvertibleArgument

\* The command ExecutePreparedQuery sent is 'EXEC <id> (<args>)' with the
\* execution id of the last prepare line and the arguments in order.
ExecCommandBuilt ==
    ExecutedPrepared =>
        /\ Len(sent) = execCall.sentBefore + 1
        /\ sent[Len(sent)] =
               <<"s", "E", "X", "E", "C", " ">>
               \o (IF execCall.id = 3 THEN <<"3">> ELSE <<"1", "2">>)
               \o <<" ", "(">> \o ExpectedArguments \o <<")", ";">>

\* The last call was PrepareQuery and its response, a prepare line first,
\* was stored.
PrepareStored == execCall.op = "prepare" /\ execCall.stored

\* C29: a prepare line starts a new ResultSet, stores the execution id in
\* it and ends the pass with success: the ResultSets there were are
\* unchanged, the new one holds nothing but the execution id, whatever lines
\* follow the prepare line; and a later ExecutePreparedQuery sends
\* 'EXEC <that id> (<args>)' with the arguments in the given order.
C29_PrepareThenExec ==
    /\ PrepareStored =>
           /\ execCall.err = "nil"
           /\ resultSets = Append(execCall.setsBefore,
                                  [EmptyResultSet EXCEPT
                                       !.ExecId = execCall.id])
    /\ ExecCommandBuilt

\* The part of C29 that holds when the cursor stands at the last ResultSet
\* before the prepare line is stored.
PrepareAtLastResultSet ==
    (PrepareStored /\ execCall.cursor = Len(execCall.setsBefore) - 1) =>
        /\ execCall.err = "nil"
        /\ resultSets = Append(execCall.setsBefore,
                               [EmptyResultSet EXCEPT !.ExecId = execCall.id])
        /\ currentResultSet = Len(resultSets) - 1

(***************************************************************************)
(* Properties of the stored rows and of the classification of lines.       *)
(***************************************************************************)
\* Every row of the ResultSet has as many values as its schema has columns.
RowsMatchSchema(rs) ==
    \A k \in 1..Len(rs.Rows) : Len(rs.Rows[k]) = Len(rs.Schema)

\* The part of C31 about the cursor-based query.
RowsMatchSchemaCursor ==
    qpc = "idle" => \A i \in 1..Len(resultSets) : RowsMatchSchema(resultSets[i])

\* The part of C31 about the v2 query.
RowsMatchSchemaV2 == qpc = "idle" => RowsMatchSchema(v2ResultSet)

\* C31: after any StoreResult pass, every row of every ResultSet has exactly
\* as many values as the schema of its ResultSet has columns, in the
\* cursor-based query and in the v2 query.
C31_RowsMatchSchema ==
    qpc = "idle" =>
        /\ \A i \in 1..Len(resultSets) : RowsMatchSchema(resultSets[i])
        /\ RowsMatchSchema(v2ResultSet)

(***************************************************************************)
(* getLineType applied to lines of every shape.                            *)
(***************************************************************************)
\* The length of the lines classified.
MaxLineLength == 2

\* The characters of the lines classified: the first characters of the
\* protocol's lines, the digits that follow '&', and others.
LineCharacters ==
    {"#", "!", "&", "1", "2", "3", "4", "5", "6", "7", "%", "[", "^", "=",
     "O", "K", "x"}

\* The lines classified: every line of these characters up to the length,
\* the line '=OK' and a redirect line.
ClassifiedLines ==
    {<<>>, <<"=", "O", "K">>, <<"^", "m", "a", "p", "i", ":">>}
    \cup UNION {[1..k -> LineCharacters] : k \in 1..MaxLineLength}

\* lineType := getLineType(line), line 131, for the first line of a
\* response.
GetLineType ==
    /\ qpc = "idle"
    /\ lineType = "none"
    /\ \E line \in ClassifiedLines :
         /\ lastLine' = line
         /\ lineType' = getLineType(line)
    /\ UNCHANGED <<resultSets, currentResultSet, qpc, lines, columns,
                   addedResultSets, qerr, nextErr, v2ResultSet, v2err, stored,
                   passes, completed, before, advances>>
    /\ UNCHANGED frameVars
    /\ UNCHANGED loginVars
    /\ UNCHANGED driverVars

ClassifyNext == GetLineType

SpecClassify == QueryInit /\ [][ClassifyNext]_vars

\* The class the protocol gives a line, by its first one or two characters.
ClassOf(line) ==
    CASE Len(line) = 0 -> "PROMT"
      [] Len(line) >= 1 /\ line[1] = "#" -> "INFO"
      [] Len(line) >= 1 /\ line[1] = "!" -> "ERROR"
      [] Len(line) >= 1 /\ line[1] = "%" -> "HEADER"
      [] Len(line) >= 1 /\ line[1] = "[" -> "TUPLE"
      [] Len(line) >= 2 /\ line[1] = "&" /\ line[2] = "1" -> "QTABLE"
      [] Len(line) >= 2 /\ line[1] = "&" /\ line[2] = "2" -> "QUPDATE"
      [] Len(line) >= 2 /\ line[1] = "&" /\ line[2] = "3" -> "QSCHEMA"
      [] Len(line) >= 2 /\ line[1] = "&" /\ line[2] = "4" -> "QTRANS"
      [] Len(line) >= 2 /\ line[1] = "&" /\ line[2] = "5" -> "QPREPARE"
      [] Len(line) >= 2 /\ line[1] = "&" /\ line[2] = "6" -> "QBLOCK"
      [] OTHER -> "UNKNOWN"

\* C32: getLineType gives every line one class, that of its first one or two
\* characters: the prompt if and only if the line is empty, info, error,
\* column header and tuple by the first character, the six query lines by
\* '&' and a digit 1 to 6, and unrecognized for every other line, the lines
\* '^...', '=OK' and '&' followed by another character among them.
C32_LineClassification ==
    lineType # "none" =>
        /\ lineType = ClassOf(lastLine)
        /\ lineType = "PROMT" <=> lastLine = <<>>
        /\ (\/ lastLine = <<"=", "O", "K">>
            \/ (Len(lastLine) >= 1 /\ lastLine[1] = "^")
            \/ lastLine = <<"&">>
            \/ (Len(lastLine) >= 2 /\ lastLine[1] = "&"
                /\ lastLine[2] \notin {"1", "2", "3", "4", "5", "6"}))
               => lineType = "UNKNOWN"

\* Witness of C32: the line '&7' was classified, as unrecognized.
C32_AmpersandSeven ==
    /\ lastLine = <<"&", "7">>
    /\ lineType = "UNKNOWN"

\* C33: StoreResult never fails by an access out of range or to an absent
\* ResultSet: a pass ends with success or with an error, and a line that
\* cannot be processed makes it return a protocol error.
C33_NeverPanics ==
    /\ qpc # "panic"
    /\ (qpc = "idle" /\ lastLine = LineHeaderNoIdentity) =>
           qerr.kind = "protocol error"

(***************************************************************************)
(* Properties of the session State.                                        *)
(***************************************************************************)
\* C34: whenever State is ready, the session holds an open connection;
\* after Disconnect State is init, there is no connection, and a command
\* returns 'not connected'.
C34_ReadyMeansConnected ==
    /\ (pc = "idle" /\ State = mapi_STATE_READY) =>
           /\ ~conn.nil
           /\ conn.open
    /\ lastCall = "Disconnect" => State = mapi_STATE_INIT /\ conn.nil
    /\ (pc = "idle" /\ lastCall = "cmd" /\ State # mapi_STATE_READY) =>
           result = "not connected"

\* The part of C34 about Disconnect and the commands of a session that is
\* not ready.
DisconnectedIsInit ==
    /\ lastCall = "Disconnect" => State = mapi_STATE_INIT /\ conn.nil
    /\ (pc = "idle" /\ lastCall = "cmd" /\ State # mapi_STATE_READY) =>
           result = "not connected" /\ outstanding = 0

(***************************************************************************)
(* Properties of the cursor while a pass runs.                             *)
(***************************************************************************)
\* The line processed last appended a ResultSet.
Appended == passes >= 1 /\ Len(resultSets) = Len(before.resultSets) + 1

\* C35: whenever a line of StoreResult starts a new ResultSet, the cursor
\* designates the ResultSet appended, the last one, also in a pass on a
\* query that holds several ResultSets with the cursor at the first.
C35_CursorAtAppended ==
    Appended => currentResultSet = Len(resultSets) - 1

\* The part of C35 that holds: when the cursor stood at the last ResultSet
\* (or at -1 with none) before the line, it stands at the appended one after.
CursorFollowsFromLast ==
    (Appended /\ before.currentResultSet = Len(before.resultSets) - 1) =>
        currentResultSet = Len(resultSets) - 1

(***************************************************************************)
(* Properties of Rows when a fetch fails or is answered short.             *)
(***************************************************************************)
\* The last Next call made a fetch whose command failed.
FetchFailed ==
    /\ lastNext.kind # "none"
    /\ lastNext.wasActive
    /\ lastNext.outcome = "error"

\* C36: when the fetch command fails, Next returns the error and offset,
\* buffered rows and row position are as before the call; and no row Next
\* returns afterwards is another row than the one at its position.
C36_FailedFetchChangesNothing ==
    /\ FetchFailed =>
           /\ lastNext.kind = "operational error"
           /\ offset = lastNext.offset
           /\ rows = lastNext.rows
           /\ rowNum = lastNext.rowNum
    /\ ~Advanced =>
           \A i \in 1..Len(returned) : returned[i] = <<TableValue(i - 1)>>

\* The part of C36 that holds: the error is returned, and rows and row
\* position are as before.
FailedFetchIsReturned ==
    FetchFailed =>
        /\ lastNext.kind = "operational error"
        /\ rows = lastNext.rows
        /\ rowNum = lastNext.rowNum

\* The last Next call made a fetch whose response StoreResult returned an
\* error for.
StoreFailed ==
    /\ lastNext.kind # "none"
    /\ lastNext.wasActive
    /\ lastNext.stored \notin {"none", "nil"}

\* C37: when StoreResult returns an error for the response of a fetch, Next
\* returns that error and hands out no row.
C37_StoreErrorIsReturned ==
    StoreFailed =>
        /\ lastNext.kind = lastNext.stored
        /\ rowNum = lastNext.rowNum

\* C38: once Rows.NextResultSet has moved the Rows on, the row position
\* counts the rows returned of the new ResultSet, the rows returned are its
\* rows 0, 1, ... as long as the server has answered every fetch with the
\* rows asked for, and before the first Next call row position and offset
\* are 0 and the buffered rows are the rows of the new ResultSet.
C38_AdvanceRestartsIteration ==
    Advanced =>
        /\ rowNum = Len(returned)
        /\ honest =>
               \A i \in 1..Len(returned) : returned[i] = <<TableValue(i - 1)>>
        /\ lastNext.kind = "none" =>
               /\ rowNum = 0
               /\ offset = 0
               /\ rows = ConvertRows(resultSets[currentResultSet + 1].Rows,
                                     resultSets[currentResultSet + 1].ColumnCount)

\* The first Next call after Rows.NextResultSet returns row 0 of the new
\* ResultSet.
FirstRowAfterAdvance ==
    (Advanced /\ Len(returned) = 1 /\ honest) => returned[1] = <<TableValue(0)>>

\* Rows.NextResultSet moves the cursor of the query on by one and changes
\* no field of the Rows.
AdvanceMovesCursorOnly ==
    [][currentResultSet' # currentResultSet =>
           /\ currentResultSet' = currentResultSet + 1
           /\ UNCHANGED <<rowNum, offset, rows, active, resultSets>>]_vars

\* C39: no Next call reads a row outside the buffered rows, and on active
\* Rows the row position lies between the window's offset and its end.
C39_RowInsideWindow ==
    /\ rpc # "panic"
    /\ active => (offset <= rowNum /\ rowNum <= offset + Len(rows))

\* The part of C39 about the row position: it lies between the window's
\* offset and its end.
RowPositionInsideWindow ==
    active => (offset <= rowNum /\ rowNum <= offset + Len(rows))

\* On Rows made over their ResultSet, no Next call reads a row outside the
\* buffered rows.
NoReadOutsideWindow == ~Advanced => rpc # "panic"

\* C40: the caller is back from mapiDo only when the background task's
\* command is over and its result was taken from the channel, with no
\* message outstanding on a transport that has not failed; and the task's
\* result lies in the channel as soon as its command is over, the channel
\* of capacity one never holding another.
C40_MapiDoWaitsForDelivery ==
    /\ (lastCall = "fetch" /\ rowsPc = "idle") =>
           /\ pc = "idle"
           /\ chan = <<>>
           /\ ~broken => outstanding = 0
    /\ (rowsPc = "select" /\ pc = "idle") => chan = <<"delivered">>
    /\ (rowsPc = "select" /\ pc = "cmd") => (chan = <<>> /\ task = "background")
    /\ Len(chan) <= 1

\* Witness of C40: the context of a fetch was done while the server's
\* response was an error line; mapiDo has returned the context's error after
\* the task delivered, and the channel is empty.
C40_CancelledAfterDelivery ==
    /\ lastCall = "fetch"
    /\ rowsPc = "idle"
    /\ pc = "idle"
    /\ ctxDone
    /\ task = "background"
    /\ chan = <<>>
    /\ result = "context canceled"
    /\ HasPrefix(lastResp, mapi_MSG_ERROR)
    /\ outstanding = 0

=============================================================================
